---- MODULE Spec2Model ----
(***************************************************************************)
(* Model of the site archiver of We-Talk-To-You: the full-site crawler     *)
(* WorkAndIncomeScraper (scraper.py), the category crawler NavScraper      *)
(* (nav_scraper.py), the worker threads of the web application (app.py)    *)
(* that run WorkAndIncomeScraper.run_update, the periodic mode             *)
(* run_periodic_scrape (improved_work_and_income_scraper.py) and the text  *)
(* extractor (ocr_utils.py).                                               *)
(*                                                                         *)
(* A URL is the record urlparse() returns: scheme, netloc, path, fragment. *)
(* A path is the sequence of its "/"-separated segments after the leading  *)
(* "/": "/map/cs/index.html" is <<"map","cs","index.html">>, "/map/cs/" is *)
(* <<"map","cs","">> (a trailing "" is a trailing slash) and the empty     *)
(* path is <<>>.  Query strings are not modelled.  An href with scheme ""  *)
(* and netloc "" is a relative reference: root-relative when its path is   *)
(* not empty, fragment-only (or empty) otherwise.                          *)
(*                                                                         *)
(* A file path is the sequence of its components below output_dir; a file  *)
(* name is split into stem and extension (<<"pdfs","f",".pdf">>).          *)
(*                                                                         *)
(* The clock counts half seconds, so that int(time.time()) drops half a    *)
(* second every other instant; the timestamp file holds <<"ts", <<>>, n>>  *)
(* for the text of the integer n.                                          *)
(***************************************************************************)
EXTENDS Integers, Sequences, FiniteSets, TLC

\* Number of entry-point invocations (run_update / NavScraper.scrape) in a behaviour.
MaxRuns == 2

\* Number of fetches of served URLs that fail (network error or status other
\* than 200) in a behaviour.
MaxFailures == 1

\* Threads that call the entry points: thread 1 alone makes sequential calls;
\* threads 1 and 2 are the worker threads of the web application
\* (app.py:115 and app.py:412).
Threads == {1, 2}

\* Scraper objects: 1 is the module-level SCRAPER of app.py, 2 a fresh one.
Instances == {1, 2}

-----------------------------------------------------------------------------
(* URLs *)

Url(scheme, netloc, path, fragment) ==
    [scheme |-> scheme, netloc |-> netloc, path |-> path, fragment |-> fragment]

\* A root-relative href "/a/b#f" (or "#f", or "" when the path is empty).
Rel(path, fragment) == Url("", "", path, fragment)

\* An absolute https URL of the archived domain.
X(path, fragment) == Url("https", "x", path, fragment)

NoUrl == Url("", "", <<>>, "")

Last(s) == s[Len(s)]

Front(s) == SubSeq(s, 1, Len(s) - 1)

IsPrefix(p, s) == Len(p) <= Len(s) /\ SubSeq(s, 1, Len(p)) = p

\* urljoin(base, href) for absolute hrefs, root-relative hrefs, fragment-only
\* hrefs and the empty href.
urljoin(base, href) ==
    IF href = NoUrl THEN base
    ELSE IF href.scheme # "" THEN href
    ELSE IF href.path = <<>> THEN [base EXCEPT !.fragment = href.fragment]
    ELSE Url(base.scheme, base.netloc, href.path, href.fragment)

\* parsed._replace(fragment="").geturl()
StripFragment(u) == [u EXCEPT !.fragment = ""]

\* Path segments that end in ".pdf", with their stems.
PdfSegs == {"f.pdf", "g.pdf"}

Stem(seg) == IF seg = "f.pdf" THEN "f" ELSE IF seg = "g.pdf" THEN "g" ELSE seg

\* current_url.lower().endswith(".pdf"): the test reads the whole URL string,
\* so a fragment after the path defeats it.
UrlEndsWithPdf(u) ==
    /\ u.fragment = ""
    /\ u.path # <<>>
    /\ Last(u.path) \in PdfSegs

\* os.path.basename(urlparse(current_url).path)
Basename(path) == IF path = <<>> THEN "" ELSE Last(path)

\* re.sub(r"[<>:/\\|?*]", "_", name): the characters replaced occur in one
\* segment of the alphabet.
Sanitize(seg) == IF seg = "q:f.pdf" THEN "q_f.pdf" ELSE seg

\* The file name of a PDF: the sanitized basename, ".pdf" appended unless
\* it ends in ".pdf" already; as <<stem, extension>>.
PdfFilename(u) ==
    LET name == Sanitize(Basename(u.path))
    IN  IF name \in PdfSegs THEN <<Stem(name), ".pdf">> ELSE <<name, ".pdf">>

\* Mutant: the PDF is stored under the directories of its URL path.
MutPdfPath(u) == <<"pdfs">> \o SubSeq(u.path, 1, Len(u.path) - 1) \o PdfFilename(u)

\* os.path.join(self.pdf_dir, filename)
PdfPath(u) == <<"pdfs">> \o PdfFilename(u)

\* The path of an HTML page under html/: the URL path without its leading
\* "/", "index.html" appended when it is empty or ends in "/".
HtmlPath(u) ==
    LET p == u.path
    IN  <<"html">> \o
        (IF p = <<>> THEN <<"index.html">>
         ELSE IF Last(p) = "" THEN Front(p) \o <<"index.html">>
         ELSE p)

\* Rank of a path segment in Python's string order.  No segment of the
\* alphabet is a proper prefix of another, so comparing paths segment by
\* segment agrees with comparing the URL strings.
SegRank(seg) ==
    CASE seg = "" -> 0
      [] seg = "changes.html" -> 1
      [] seg = "cs" -> 2
      [] seg = "df" -> 3
      [] seg = "f.pdf" -> 4
      [] seg = "g.pdf" -> 5
      [] seg = "index.html" -> 6
      [] seg = "map" -> 7
      [] seg = "page.html" -> 8
      [] seg = "s1" -> 9
      [] seg = "s2" -> 10
      [] seg = "sub" -> 11
      [] seg = "top" -> 12
      [] OTHER -> 13

RECURSIVE PathLess(_, _)
PathLess(p, q) ==
    IF p = <<>> THEN q # <<>>
    ELSE IF q = <<>> THEN FALSE
    ELSE IF Head(p) = Head(q) THEN PathLess(Tail(p), Tail(q))
    ELSE SegRank(Head(p)) < SegRank(Head(q))

\* a < b as URL strings of one scheme and netloc (the category links).
UrlLess(a, b) ==
    IF a.path = b.path THEN SegRank(a.fragment) < SegRank(b.fragment)
    ELSE PathLess(a.path, b.path)

\* Mutant: the category links are taken in descending order.
RECURSIVE MutSorted(_)
MutSorted(S) ==
    IF S = {} THEN <<>>
    ELSE LET m == CHOOSE a \in S : \A b \in S \ {a} : UrlLess(b, a)
         IN  <<m>> \o MutSorted(S \ {m})

\* sorted(nav_links_set)
RECURSIVE Sorted(_)
Sorted(S) ==
    IF S = {} THEN <<>>
    ELSE LET m == CHOOSE a \in S : \A b \in S \ {a} : UrlLess(a, b)
         IN  <<m>> \o Sorted(S \ {m})

-----------------------------------------------------------------------------
(* The archived site: fixture page graphs *)

pIndex == <<"map", "index.html">>
pB == <<"map", "cs", "index.html">>
pC == <<"map", "df", "index.html">>
pD == <<"map", "cs", "sub", "page.html">>
pE == <<"map", "df", "page.html">>
pChanges == <<"map", "changes.html">>
pPdf1 == <<"map", "cs", "f.pdf">>
pPdf2 == <<"map", "df", "f.pdf">>
pPdf3 == <<"map", "cs", "g.pdf">>

Html(links) == [ctype |-> "text/html", links |-> links]

Pdf == [ctype |-> "application/pdf", links |-> <<>>]

\* The page graph A->{B,C}, B->{D}, C->{} with A the start page.
SiteBFS ==
    [p \in {pIndex, pB, pC, pD} |->
        CASE p = pIndex -> Html(<<Rel(pB, ""), Rel(pC, "")>>)
          [] p = pB -> Html(<<Rel(pD, "")>>)
          [] OTHER -> Html(<<>>)]

\* Cycles, self-links, repeated links, fragments, PDFs with one basename in
\* two directories, an external domain, a mailto link, links across
\* categories and a top-level page /map/changes.html.
SiteMix ==
    [p \in {pIndex, pB, pC, pD, pE, pChanges, pPdf1, pPdf2} |->
        CASE p = pIndex ->
               Html(<<Rel(pB, "s1"), Rel(pB, "s2"),
                      Url("https", "ext", pB, ""),
                      Url("mailto", "", <<"a@b">>, ""),
                      Rel(pChanges, ""), Rel(pIndex, ""), Rel(<<>>, "top"),
                      Rel(pC, "")>>)
          [] p = pB ->
               Html(<<Rel(pIndex, ""), Rel(pD, ""), Rel(pPdf1, ""),
                      Rel(pE, ""), Rel(pD, "s1")>>)
          [] p = pC -> Html(<<Rel(pPdf2, ""), Rel(pB, ""), Rel(pE, "")>>)
          [] p = pD -> Html(<<Rel(pB, ""), X(pPdf1, ""), Rel(pC, "s2")>>)
          [] p = pE -> Html(<<Rel(pC, ""), Url("ftp", "x", pD, "")>>)
          [] p = pChanges -> Html(<<Rel(pB, ""), Rel(pE, "")>>)
          [] OTHER -> Pdf]

\* A small site with two PDFs of one basename.
SitePdfs ==
    [p \in {pIndex, pB, pPdf1, pPdf2} |->
        CASE p = pIndex -> Html(<<Rel(pPdf1, ""), Rel(pPdf2, ""), Rel(pB, "")>>)
          [] p = pB -> Html(<<Rel(pIndex, ""), Rel(pPdf1, "s1")>>)
          [] OTHER -> Pdf]

\* A small site with two PDFs of different names.
SiteDocs ==
    [p \in {pIndex, pB, pPdf1, pPdf3} |->
        CASE p = pIndex -> Html(<<Rel(pB, "")>>)
          [] p = pB -> Html(<<Rel(pPdf1, ""), Rel(pPdf3, "")>>)
          [] OTHER -> Pdf]

Sites == {SiteBFS, SiteMix, SitePdfs, SiteDocs}

\* The sites crawled by concurrent runs.
ConcSites == {SiteBFS, SitePdfs}

pFile == <<"map", "cs">>

\* A page /map/cs that is saved as the file html/map/cs, and a page
\* /map/cs/index.html whose directory html/map/cs can then not be made.
SiteClash ==
    [p \in {pIndex, pFile, pB} |->
        CASE p = pIndex -> Html(<<Rel(pFile, ""), Rel(pB, "")>>)
          [] OTHER -> Html(<<>>)]

\* The sites of the update policy.
UpdateSites == {SiteDocs, SiteClash}

pRoot == <<"">>

\* The site of the end-to-end example, "/" -> {"/page.html", "/f.pdf"},
\* crawled from the start URL https://x/.
SiteRoot ==
    [p \in {pRoot, <<"page.html">>, <<"f.pdf">>} |->
        CASE p = pRoot -> Html(<<Rel(<<"page.html">>, ""), Rel(<<"f.pdf">>, "")>>)
          [] p = <<"page.html">> -> Html(<<>>)
          [] OTHER -> Pdf]

\* The configured start URL: the default, or one that carries a fragment.
StartUrls == {X(pIndex, ""), X(pIndex, "top")}

\* The sites that are also crawled from the start URL with a fragment.
FragmentSites == {SiteBFS, SitePdfs}

-----------------------------------------------------------------------------
(* State *)

VARIABLES
    site,         \* the page graph served by the remote host
    siteVer,      \* version of the bodies the host serves
    start_url,    \* WorkAndIncomeScraper.start_url / NavScraper.start_url
    files,        \* the files under output_dir: path -> content
    _visited,     \* WorkAndIncomeScraper._visited of each scraper object
    pc,           \* position of each thread in its entry point
    kind,         \* "full" (run_update) or "nav" (NavScraper.scrape)
    inst,         \* the scraper object a full run is called on
    queue,        \* the local deque of the crawl loop
    current_url,  \* the URL popped last
    response,     \* the response of the last successful fetch
    nav_links,    \* NavScraper.scrape: the categories still to crawl
    category,     \* _crawl_category: category_url (NoUrl outside it)
    visited,      \* _crawl_category: its local visited set
    fetchLog,     \* history: the URLs the thread's call passed to get(), with their crawl
                  \* loop and whether the fetch gave status 200
    firstDepth,   \* history: link depth at which the current loop first enqueued a URL
    enqueued,     \* history: the URLs the current loop appended to its queue
    opener,       \* history: who opened each PDF path with mode "wb" (thread, calls started)
    started,      \* number of entry-point invocations so far
    failures,     \* number of failed fetches of served URLs so far
    clock,        \* time.time(), in half seconds
    answer,       \* needs_update called last, if nothing has happened since: its inputs and result
    slept,        \* history: time.sleep(self.delay) has run since the thread's last fetch
    extractLog,   \* history: the PDFs the call passed to extract_text_from_pdf
    callLog,      \* history: the steps the call has taken
    cycle,        \* run_periodic_scrape: its interval, its position and its current cycle
    ocr,          \* ocr_utils: the file, the backends installed and what they do, the call and its result
    letter        \* letter_analysis: the arguments, the call and its result

vars == <<site, siteVer, start_url, files, _visited, pc, kind, inst, queue,
          current_url, response, nav_links, category, visited, fetchLog,
          firstDepth, enqueued, opener, started, failures, clock, answer,
          slept, extractLog, callLog, cycle, ocr, letter>>

\* The host, the configuration and the clock.
hostVars == <<site, siteVer, start_url, started, clock, answer, cycle, ocr, letter>>

\* The history of the current call.
callHist == <<slept, extractLog, callLog>>

\* The local variables of _crawl_category and NavScraper.scrape.
navVars == <<nav_links, category, visited>>

\* The history of the current crawl loop.
loopHist == <<firstDepth, enqueued>>

Empty == <<"empty", <<>>, 0>>

NoResponse == [pdf |-> FALSE, body |-> Empty, links |-> <<>>]

NoFunction == [u \in {} |-> 0]

\* needs_update has not been called.
NoAnswer == [days |-> 0, stale |-> FALSE, at |-> 0, content |-> <<"none", <<>>, 0>>]

\* run_periodic_scrape has not been called.
NoCycle == [phase |-> "off", interval |-> 0, n |-> 0, begun |-> 0, stale |-> FALSE]

\* A string of ocr_utils: a sequence over "t" (a character of text) and "\n".
Text == <<"t">>

\* No call of letter_analysis has been made.
NoLetter ==
    [text |-> <<>>, keywords |-> [given |-> FALSE, list |-> <<>>], max_lines |-> 5,
     called |-> "none", label |-> "", key_lines |-> <<>>]

\* No call of ocr_utils has been made; pdftotext is installed and gives text.
NoOcr ==
    [ext |-> ".pdf", pdftotext |-> "text", pdf2image |-> "missing",
     pytesseract |-> "missing", pillow |-> "missing", pages |-> <<>>, image |-> "blank",
     called |-> "none", raised |-> FALSE, text |-> <<>>]

\* The state of the scraper objects after construction, for a host that
\* serves one of the sites S, a start URL of U and f failed fetches so far.
Constructed(S, U, f) ==
    /\ site \in S
    /\ siteVer = 1
    /\ start_url \in U
    /\ files = [p \in {} |-> Empty]
    /\ _visited = [i \in Instances |-> {}]
    /\ pc = [r \in Threads |-> "idle"]
    /\ kind = [r \in Threads |-> "full"]
    /\ inst = [r \in Threads |-> 1]
    /\ queue = [r \in Threads |-> <<>>]
    /\ current_url = [r \in Threads |-> NoUrl]
    /\ response = [r \in Threads |-> NoResponse]
    /\ nav_links = [r \in Threads |-> <<>>]
    /\ category = [r \in Threads |-> NoUrl]
    /\ visited = [r \in Threads |-> {}]
    /\ fetchLog = [r \in Threads |-> <<>>]
    /\ firstDepth = [r \in Threads |-> NoFunction]
    /\ enqueued = [r \in Threads |-> <<>>]
    /\ opener = [p \in {} |-> {}]
    /\ started = 0
    /\ failures = f
    /\ clock = 0
    /\ answer = NoAnswer
    /\ slept = [r \in Threads |-> FALSE]
    /\ extractLog = [r \in Threads |-> {}]
    /\ callLog = [r \in Threads |-> <<>>]
    /\ cycle = NoCycle

\* The state after construction when no call of ocr_utils or of
\* letter_analysis is followed.
Start(S, U, f) == Constructed(S, U, f) /\ ocr = NoOcr /\ letter = NoLetter

\* Every site is crawled from the default start URL, the small sites also
\* from the start URL with a fragment, the site of the end-to-end example
\* from its root.
Init ==
    \/ Start(Sites, {X(pIndex, "")}, 0)
    \/ Start(FragmentSites, StartUrls, 0)
    \/ Start({SiteRoot}, {X(pRoot, "")}, 0)

\* files with path p holding content c
WriteFile(p, c) == [q \in DOMAIN files \cup {p} |-> IF q = p THEN c ELSE files[q]]

\* os.path.exists(p) for a file path
Exists(p) == p \in DOMAIN files

\* The body the host serves for path p.
Body(p) == <<"body", p, siteVer>>

-----------------------------------------------------------------------------
(* The crawl loop: WorkAndIncomeScraper.scrape and NavScraper._crawl_category *)

\* The set the loop tests and extends: self._visited or the local visited.
VisitedOf(r) == IF kind[r] = "full" THEN _visited[inst[r]] ELSE visited[r]

\* The start target of the loop thread r is in.
LoopStart(r) == IF kind[r] = "full" THEN start_url ELSE category[r]

\* base_domain
BaseDomain(r) == LoopStart(r).netloc

HtmlSegs == {"index.html", "page.html", "changes.html"}

\* start_path.rstrip("/")
RECURSIVE RStripSlash(_)
RStripSlash(p) ==
    IF p # <<>> /\ Last(p) = "" THEN RStripSlash(Front(p)) ELSE p

\* base_dir of a category, a directory string that ends in "/": the path
\* without its last segment when it ends in ".html", the path itself otherwise.
BaseDir(category_url) ==
    LET start_path == category_url.path
    IN  IF start_path # <<>> /\ Last(start_path) \in HtmlSegs
        THEN Front(start_path) \o <<"">>
        ELSE RStripSlash(start_path) \o <<"">>

\* path.startswith(dir) for a directory string dir that ends in "/"
StartsWith(path, dir) ==
    /\ IsPrefix(Front(dir), path)
    /\ Len(path) > Len(Front(dir))

\* parsed.scheme in {"http", "https"}
SchemeOk(parsed) == parsed.scheme \in {"http", "https"}

\* Mutant: links to other domains are followed.
MutDomainOk(parsed, base_domain) == TRUE

\* parsed.netloc == base_domain
DomainOk(parsed, base_domain) == parsed.netloc = base_domain

\* Mutant: the category crawl follows links outside its directory.
MutPathOk(r, parsed) == TRUE

\* parsed.path.startswith(base_dir), tested by the category crawl alone
PathOk(r, parsed) ==
    kind[r] = "nav" => StartsWith(parsed.path, BaseDir(category[r]))

\* Mutant: the link loop appends without looking at the visited set.
MutNotVisited(r, u) == TRUE

\* normalised not in self._visited / norm not in visited
NotVisited(r, u) == u \notin VisitedOf(r)

\* Mutant: the fragment is left on the link.
MutNormalise(parsed) == parsed

\* parsed._replace(fragment="").geturl() of a link
Normalise(parsed) == StripFragment(parsed)

\* The links of a page, resolved against current_url.
Resolved(r) ==
    [i \in 1..Len(response[r].links) |-> urljoin(current_url[r], response[r].links[i])]

\* The URLs the link loop appends to the queue, in order.
NewTargets(r) ==
    LET Follow(parsed) ==
            /\ SchemeOk(parsed)
            /\ DomainOk(parsed, BaseDomain(r))
            /\ PathOk(r, parsed)
            /\ NotVisited(r, Normalise(parsed))
        kept == SelectSeq(Resolved(r), Follow)
    IN  [i \in 1..Len(kept) |-> Normalise(kept[i])]

\* Mutant: queue.pop(), which takes the newest entry.
MutPopIndex(q) == Len(q)

\* queue.popleft(): the index of the entry removed.
PopIndex(q) == 1

\* Mutant: queue[0], which reads the entry and leaves it in the frontier.
MutWithout(q, i) == q

\* queue.popleft(): the frontier without the entry removed.
Without(q, i) == SubSeq(q, 1, i - 1) \o SubSeq(q, i + 1, Len(q))

\* The depths of first discovery after appending targets found on a page of depth d.
RECURSIVE Discover(_, _, _)
Discover(fd, targets, d) ==
    IF targets = <<>> THEN fd
    ELSE LET u == Head(targets)
             fd1 == IF u \in DOMAIN fd THEN fd
                    ELSE [v \in DOMAIN fd \cup {u} |-> IF v = u THEN d ELSE fd[v]]
         IN  Discover(fd1, Tail(targets), d)

\* Mutant: the loop ends although targets are pending.
MutQueueEmpty(q) == Len(q) <= 1

\* not queue: the test of "while queue"
QueueEmpty(q) == q = <<>>

\* while queue: current_url = queue.popleft(); if current_url in visited: continue
\* Mutant: scrape() leaves the timestamp to be written after the extraction pass.
MutAfterCrawl(k) == IF k = "full" THEN "extract" ELSE "nextcat"

\* What follows the loop: in scrape() the write of last_scrape.txt, in
\* _crawl_category the return to the loop over the categories.
AfterCrawl(k) == IF k = "full" THEN "stamp" ELSE "nextcat"

Dequeue(r) ==
    /\ pc[r] = "loop"
    /\ IF QueueEmpty(queue[r])
       THEN /\ pc' = [pc EXCEPT ![r] = AfterCrawl(kind[r])]
            /\ UNCHANGED <<queue, current_url>>
       ELSE LET i == PopIndex(queue[r])
                u == queue[r][i]
            IN  /\ queue' = [queue EXCEPT ![r] = Without(queue[r], i)]
                /\ current_url' = [current_url EXCEPT ![r] = u]
                /\ pc' = [pc EXCEPT ![r] = IF u \in VisitedOf(r) THEN "loop" ELSE "mark"]
    /\ UNCHANGED <<hostVars, navVars, loopHist, callHist, files, _visited, kind, inst,
                   response, fetchLog, opener, failures>>

\* visited.add(current_url)
Mark(r) ==
    /\ pc[r] = "mark"
    /\ IF kind[r] = "full"
       THEN /\ _visited' = [_visited EXCEPT ![inst[r]] = @ \cup {current_url[r]}]
            /\ UNCHANGED visited
       ELSE /\ visited' = [visited EXCEPT ![r] = @ \cup {current_url[r]}]
            /\ UNCHANGED _visited
    /\ pc' = [pc EXCEPT ![r] = "fetch"]
    /\ UNCHANGED <<hostVars, loopHist, callHist, files, kind, inst, queue, current_url,
                   response, nav_links, category, fetchLog, opener, failures>>

\* Whether the host answers 200 for u.
Served(u) == u.scheme \in {"http", "https"} /\ u.netloc = "x" /\ u.path \in DOMAIN site

\* Mutant: the PDF test is left out, every response is taken for HTML.
MutGet(u) ==
    LET page == site[u.path]
    IN  [pdf |-> FALSE, body |-> Body(u.path),
         links |-> IF page.ctype = "text/html" THEN page.links ELSE <<>>]

\* The response to a successful get(u).
Get(u) ==
    LET page == site[u.path]
        pdf == page.ctype = "application/pdf" \/ UrlEndsWithPdf(u)
    IN  [pdf |-> pdf, body |-> Body(u.path),
         links |-> IF page.ctype = "text/html" THEN page.links ELSE <<>>]

\* The outcomes of get(u): "ok" (status 200), a network error or another status.
Outcomes(u) ==
    (IF Served(u) THEN {"ok"} ELSE {})
    \cup (IF ~Served(u) \/ failures < MaxFailures THEN {"error", "non200"} ELSE {})

\* The failure count after an outcome of get(u).
Failed(u, outcome) == IF Served(u) /\ outcome # "ok" THEN failures + 1 ELSE failures

\* Mutant: a failed fetch ends the crawl.
MutFailurePc == "http_error"

\* Where the loop goes after a failed fetch: "continue", to the next target.
FailurePc == "loop"

\* session.get(current_url, timeout=30), the status test and the content-type
\* test: a network error or a status other than 200 goes to the next target.
Fetch(r) ==
    /\ pc[r] = "fetch"
    /\ \E outcome \in Outcomes(current_url[r]) :
          /\ fetchLog' = [fetchLog EXCEPT ![r] =
                             Append(@, [loop |-> LoopStart(r), url |-> current_url[r],
                                        ok |-> outcome = "ok"])]
          /\ failures' = Failed(current_url[r], outcome)
          /\ IF outcome = "ok"
             THEN /\ response' = [response EXCEPT ![r] = Get(current_url[r])]
                  /\ pc' = [pc EXCEPT ![r] =
                               IF Get(current_url[r]).pdf THEN "pdf" ELSE "html"]
             ELSE /\ pc' = [pc EXCEPT ![r] = FailurePc]
                  /\ UNCHANGED response
    /\ slept' = [slept EXCEPT ![r] = FALSE]
    /\ UNCHANGED <<hostVars, navVars, loopHist, extractLog, callLog, files, _visited,
                   kind, inst, queue, current_url, opener>>

\* Mutant: the PDF is written whether or not the file exists.
MutPdfAbsent(p) == TRUE

\* if not os.path.exists(pdf_path)
PdfAbsent(p) == ~Exists(p)

\* The PDF branch up to the existence test; time.sleep and continue when the
\* file is there.
PdfExists(r) ==
    /\ pc[r] = "pdf"
    /\ IF PdfAbsent(PdfPath(current_url[r]))
       THEN /\ pc' = [pc EXCEPT ![r] = "pdf_open"]
            /\ UNCHANGED slept
       ELSE /\ pc' = [pc EXCEPT ![r] = "loop"]
            /\ slept' = [slept EXCEPT ![r] = TRUE]
    /\ UNCHANGED <<hostVars, navVars, loopHist, extractLog, callLog, files, _visited,
                   kind, inst, queue, current_url, response, fetchLog, opener, failures>>

\* open(pdf_path, "wb"): creates the file, or truncates it.
PdfOpen(r) ==
    /\ pc[r] = "pdf_open"
    /\ LET p == PdfPath(current_url[r])
       IN  /\ files' = WriteFile(p, Empty)
           /\ opener' = [q \in DOMAIN opener \cup {p} |->
                           IF q = p
                           THEN (IF p \in DOMAIN opener THEN opener[p] ELSE {})
                                \cup {<<r, started>>}
                           ELSE opener[q]]
    /\ pc' = [pc EXCEPT ![r] = "pdf_write"]
    /\ UNCHANGED <<hostVars, navVars, loopHist, callHist, _visited, kind, inst, queue,
                   current_url, response, fetchLog, failures>>

\* f.write(response.content), close, time.sleep(self.delay), continue
PdfWrite(r) ==
    /\ pc[r] = "pdf_write"
    /\ files' = WriteFile(PdfPath(current_url[r]), response[r].body)
    /\ slept' = [slept EXCEPT ![r] = TRUE]
    /\ pc' = [pc EXCEPT ![r] = "loop"]
    /\ UNCHANGED <<hostVars, navVars, loopHist, extractLog, callLog, _visited, kind,
                   inst, queue, current_url, response, fetchLog, opener, failures>>

\* os.makedirs(os.path.dirname(local_path), exist_ok=True) and open(local_path, "w")
\* fail when a directory of the path is a file or the path is a directory.
CanSave(local_path) ==
    /\ \A n \in 1..(Len(local_path) - 1) : ~Exists(SubSeq(local_path, 1, n))
    /\ \A q \in DOMAIN files : ~(IsPrefix(local_path, q) /\ q # local_path)

\* The HTML branch: save the page, then append its links that are in scope
\* and not visited to the queue, time.sleep(self.delay).
SaveHtml(r) ==
    /\ pc[r] = "html"
    /\ LET local_path == HtmlPath(current_url[r])
       IN  IF CanSave(local_path)
           THEN /\ files' = WriteFile(local_path, response[r].body)
                /\ queue' = [queue EXCEPT ![r] = @ \o NewTargets(r)]
                /\ enqueued' = [enqueued EXCEPT ![r] = @ \o NewTargets(r)]
                /\ firstDepth' = [firstDepth EXCEPT ![r] =
                                     Discover(@, NewTargets(r), @[current_url[r]] + 1)]
                /\ slept' = [slept EXCEPT ![r] = TRUE]
                /\ pc' = [pc EXCEPT ![r] = "loop"]
           ELSE /\ pc' = [pc EXCEPT ![r] = "raised"]
                /\ UNCHANGED <<files, queue, enqueued, firstDepth, slept>>
    /\ UNCHANGED <<hostVars, navVars, extractLog, callLog, _visited, kind, inst,
                   current_url, response, fetchLog, opener, failures>>

-----------------------------------------------------------------------------
(* The entry points *)

\* A thread that is in no call: it has made none, or its call has returned
\* ("done", or "current" when run_update found the data up to date) or has
\* raised (OSError: "raised", an HTTP or connection error: "http_error",
\* KeyboardInterrupt: "interrupted").
Inactive(r) == pc[r] \in {"idle", "done", "current", "raised", "http_error", "interrupted"}

\* A thread may call an entry point; thread 2 makes no call before thread 1.
MayStart(r) ==
    /\ Inactive(r)
    /\ started < MaxRuns
    /\ IF r = 1 THEN TRUE ELSE pc[1] # "idle"

\* The state of a crawl loop that starts at target u.
StartLoop(r, u) ==
    /\ queue' = [queue EXCEPT ![r] = <<u>>]
    /\ firstDepth' = [firstDepth EXCEPT ![r] = [v \in {u} |-> 0]]
    /\ enqueued' = [enqueued EXCEPT ![r] = <<>>]

DaySeconds == 24 * 3600

\* The values of days that needs_update is called with: the default of 30
\* and an interval of one day.
Days == {1, 30}

\* self.last_scrape_file of WorkAndIncomeScraper
last_scrape_file == <<"last_scrape.txt">>

\* What open(self.last_scrape_file, "r") and f.read() give: "absent" when
\* there is no file, the content otherwise.  The content is <<"ts", <<>>, n>>
\* for text that int() parses as n, Empty for a file of length 0,
\* <<"junk", <<>>, 0>> for text that is no integer and <<"unreadable", <<>>, 0>>
\* for a file that open() cannot read.
StampContent ==
    IF Exists(last_scrape_file) THEN files[last_scrape_file] ELSE <<"absent", <<>>, 0>>

\* Mutant: a scrape that is exactly days old counts as stale.
MutNeedsUpdateAtLeast(content, now, days) ==
    IF content[1] # "ts" THEN TRUE
    ELSE now - 2 * content[3] >= 2 * days * DaySeconds

\* Mutant: a timestamp that cannot be read or parsed counts as fresh.
MutNeedsUpdateMalformed(content, now, days) ==
    IF content[1] # "ts" THEN content[1] = "absent"
    ELSE now - 2 * content[3] > 2 * days * DaySeconds

\* needs_update(days) for a timestamp file with the given content at time
\* now (in half seconds): True when open, read or int() raises, otherwise
\* time.time() - last_ts > days * 24 * 3600.
needs_update(content, now, days) ==
    IF content[1] # "ts" THEN TRUE
    ELSE now - 2 * content[3] > 2 * days * DaySeconds

\* A call of needs_update(days) outside run_update (app.py:411,
\* run_periodic_scrape); the call and its result are recorded.
NeedsUpdate(r, days) ==
    /\ Inactive(r)
    /\ answer' = [days |-> days, stale |-> needs_update(StampContent, clock, days),
                  at |-> clock, content |-> StampContent]
    /\ UNCHANGED <<letter, ocr, site, siteVer, start_url, started, clock, navVars, loopHist, callHist,
                   files, _visited, pc, kind, inst, queue, current_url, response,
                   fetchLog, opener, failures, cycle>>

\* Mutant: run_update crawls only when it is forced.
MutShouldRunForced(force, stale) == force

\* Mutant: run_update always crawls.
MutShouldRunAlways(force, stale) == TRUE

\* if force or self.needs_update()
ShouldRun(force, stale) == force \/ stale

\* The entry of a call of run_update in the history of the call.
Called(force) == IF force THEN "run_update(force=True)" ELSE "run_update(force=False)"

\* run_update(force) on scraper object i: when the update is forced or due,
\* scrape() up to the first test of the queue; otherwise nothing but a log line.
RunUpdateCall(r, i, force) ==
    /\ MayStart(r)
    /\ started' = started + 1
    /\ kind' = [kind EXCEPT ![r] = "full"]
    /\ inst' = [inst EXCEPT ![r] = i]
    /\ fetchLog' = [fetchLog EXCEPT ![r] = <<>>]
    /\ slept' = [slept EXCEPT ![r] = FALSE]
    /\ extractLog' = [extractLog EXCEPT ![r] = {}]
    /\ IF ShouldRun(force, needs_update(StampContent, clock, 30))
       THEN /\ StartLoop(r, start_url)
            /\ callLog' = [callLog EXCEPT ![r] = <<Called(force), "scrape">>]
            /\ pc' = [pc EXCEPT ![r] = "loop"]
       ELSE /\ callLog' = [callLog EXCEPT ![r] = <<Called(force)>>]
            /\ pc' = [pc EXCEPT ![r] = "current"]
            /\ UNCHANGED <<queue, firstDepth, enqueued>>
    /\ answer' = NoAnswer
    /\ UNCHANGED <<letter, ocr, site, siteVer, start_url, clock, navVars, files, _visited,
                   current_url, response, opener, failures>>

\* run_update(force), called from anywhere but run_periodic_scrape.
RunUpdate(r, i, force) ==
    /\ RunUpdateCall(r, i, force)
    /\ UNCHANGED cycle

\* Mutant: the time of the start of the program is written.
MutTimestamp == <<"ts", <<>>, 0>>

\* The timestamp scrape() writes: str(int(time.time())).
Timestamp == <<"ts", <<>>, clock \div 2>>

\* scrape(): write last_scrape.txt after the loop and return to run_update.
Stamp(r) ==
    /\ pc[r] = "stamp"
    /\ files' = WriteFile(last_scrape_file, Timestamp)
    /\ callLog' = [callLog EXCEPT ![r] = Append(@, "stamp")]
    /\ pc' = [pc EXCEPT ![r] = "extract"]
    /\ UNCHANGED <<hostVars, navVars, loopHist, slept, extractLog, _visited, kind, inst,
                   queue, current_url, response, fetchLog, opener, failures>>

\* The PDF files os.walk(self.pdf_dir) lists.
PdfFiles == {p \in DOMAIN files : p[1] = "pdfs" /\ Last(p) = ".pdf"}

\* os.path.splitext(rel_path)[0] + ".txt" under text_dir
TxtPath(pdf_path) == <<"pdf_text">> \o SubSeq(pdf_path, 2, Len(pdf_path) - 1) \o <<".txt">>

\* Mutant: a text file of size 0 counts as done.
MutNeedsText(pdf_path) == ~Exists(TxtPath(pdf_path))

\* A PDF whose text file is missing or has size 0.
NeedsText(pdf_path) == ~Exists(TxtPath(pdf_path)) \/ files[TxtPath(pdf_path)] = Empty

\* Mutant: the pass deletes a PDF once its text is extracted.
MutExtracted(hasText) ==
    LET todo == {p \in PdfFiles : NeedsText(p)}
        out == {TxtPath(p) : p \in todo}
        src(t) == CHOOSE p \in todo : TxtPath(p) = t
    IN  [q \in (DOMAIN files \ hasText) \cup out |->
            IF q \in out
            THEN (IF src(q) \in hasText THEN <<"text", src(q), 1>> ELSE Empty)
            ELSE files[q]]

\* files after the extraction pass: extract_text_from_pdf gives text for
\* the PDFs in hasText and "" for the others that need text.
Extracted(hasText) ==
    LET todo == {p \in PdfFiles : NeedsText(p)}
        out == {TxtPath(p) : p \in todo}
        src(t) == CHOOSE p \in todo : TxtPath(p) = t
    IN  [q \in DOMAIN files \cup out |->
            IF q \in out
            THEN (IF src(q) \in hasText THEN <<"text", src(q), 1>> ELSE Empty)
            ELSE files[q]]

\* extract_all_pdfs(), then run_update returns.
ExtractAllPdfs(r) ==
    /\ pc[r] = "extract"
    /\ kind[r] = "full"
    /\ \E hasText \in SUBSET {p \in PdfFiles : NeedsText(p)} :
          files' = Extracted(hasText)
    /\ extractLog' = [extractLog EXCEPT ![r] = {p \in PdfFiles : NeedsText(p)}]
    /\ callLog' = [callLog EXCEPT ![r] = Append(@, "extract")]
    /\ pc' = [pc EXCEPT ![r] = "done"]
    /\ UNCHANGED <<hostVars, navVars, loopHist, slept, _visited, kind, inst, queue,
                   current_url, response, fetchLog, opener, failures>>

\* href.startswith("/map/"), at most three non-empty segments, not /map/index.html
IsCategoryHref(href) ==
    LET segments == SelectSeq(href.path, LAMBDA seg : seg # "")
    IN  /\ href.scheme = "" /\ href.netloc = ""
        /\ Len(href.path) >= 2 /\ href.path[1] = "map"
        /\ Len(segments) <= 3
        /\ segments # <<"map", "index.html">>

\* nav_links_set for the hrefs of the navigation page
NavLinks(hrefs) ==
    {urljoin(start_url, hrefs[i]) : i \in {j \in DOMAIN hrefs : IsCategoryHref(hrefs[j])}}

\* NavScraper.scrape(): fetch the navigation page (raise_for_status raises on
\* a failure) and collect the sorted category links.
NavScrape(r) ==
    /\ MayStart(r)
    /\ started' = started + 1
    /\ kind' = [kind EXCEPT ![r] = "nav"]
    /\ \E outcome \in Outcomes(start_url) :
          /\ fetchLog' = [fetchLog EXCEPT ![r] =
                             <<[loop |-> NoUrl, url |-> start_url, ok |-> outcome = "ok"]>>]
          /\ failures' = Failed(start_url, outcome)
          /\ IF outcome = "ok"
             THEN /\ nav_links' = [nav_links EXCEPT ![r] =
                                      Sorted(NavLinks(Get(start_url).links))]
                  /\ pc' = [pc EXCEPT ![r] = "nextcat"]
             ELSE /\ pc' = [pc EXCEPT ![r] = "http_error"]
                  /\ nav_links' = [nav_links EXCEPT ![r] = <<>>]
    /\ category' = [category EXCEPT ![r] = NoUrl]
    /\ firstDepth' = [firstDepth EXCEPT ![r] = NoFunction]
    /\ enqueued' = [enqueued EXCEPT ![r] = <<>>]
    /\ slept' = [slept EXCEPT ![r] = FALSE]
    /\ extractLog' = [extractLog EXCEPT ![r] = {}]
    /\ callLog' = [callLog EXCEPT ![r] = <<"NavScraper.scrape()">>]
    /\ UNCHANGED <<letter, ocr, site, siteVer, start_url, clock, answer, cycle, files, _visited, inst,
                   queue, current_url, response, visited, opener>>

\* Mutant: one visited set serves all category crawls of a run.
MutNewVisited(r) == visited[r]

\* visited: set[str] = set() at the start of _crawl_category
NewVisited(r) == {}

\* for link in nav_links: self._crawl_category(link), up to the first test
\* of the queue; after the last category the extraction follows.
NextCat(r) ==
    /\ pc[r] = "nextcat"
    /\ IF nav_links[r] = <<>>
       THEN /\ pc' = [pc EXCEPT ![r] = "extract"]
            /\ UNCHANGED <<nav_links, category, visited, queue, firstDepth, enqueued,
                           callLog>>
       ELSE /\ category' = [category EXCEPT ![r] = Head(nav_links[r])]
            /\ nav_links' = [nav_links EXCEPT ![r] = Tail(@)]
            /\ visited' = [visited EXCEPT ![r] = NewVisited(r)]
            /\ StartLoop(r, Head(nav_links[r]))
            /\ callLog' = [callLog EXCEPT ![r] = Append(@, "crawl_category")]
            /\ pc' = [pc EXCEPT ![r] = "loop"]
    /\ UNCHANGED <<hostVars, slept, extractLog, files, _visited, kind, inst, current_url,
                   response, fetchLog, opener, failures>>

\* NavScraper._extract_all_pdfs()
NavExtractAllPdfs(r) ==
    /\ pc[r] = "extract"
    /\ kind[r] = "nav"
    /\ \E hasText \in SUBSET {p \in PdfFiles : NeedsText(p)} :
          files' = Extracted(hasText)
    /\ extractLog' = [extractLog EXCEPT ![r] = {p \in PdfFiles : NeedsText(p)}]
    /\ callLog' = [callLog EXCEPT ![r] = Append(@, "extract")]
    /\ pc' = [pc EXCEPT ![r] = "stamp_nav"]
    /\ UNCHANGED <<hostVars, navVars, loopHist, slept, _visited, kind, inst, queue,
                   current_url, response, fetchLog, opener, failures>>

\* Mutant: NavScraper uses the timestamp file of the full-site scraper.
MutNavLastScrapeFile == <<"last_scrape.txt">>

\* self.last_scrape_file of NavScraper
nav_last_scrape_file == <<"last_nav_scrape.txt">>

\* NavScraper.scrape(): write last_nav_scrape.txt and return.
NavStamp(r) ==
    /\ pc[r] = "stamp_nav"
    /\ files' = WriteFile(nav_last_scrape_file, Timestamp)
    /\ callLog' = [callLog EXCEPT ![r] = Append(@, "stamp")]
    /\ pc' = [pc EXCEPT ![r] = "done"]
    /\ UNCHANGED <<hostVars, navVars, loopHist, slept, extractLog, _visited, kind, inst,
                   queue, current_url, response, fetchLog, opener, failures>>

\* The remote host changes the bodies it serves, between two calls.
SiteChanges ==
    /\ siteVer = 1
    /\ started > 0
    /\ \A r \in Threads : Inactive(r)
    /\ siteVer' = 2
    /\ UNCHANGED <<letter, ocr, site, start_url, started, clock, answer, cycle, navVars, loopHist, callHist,
                   files, _visited, pc, kind, inst, queue, current_url, response,
                   fetchLog, opener, failures>>

\* The instants at which the clock is read, in half seconds: the start, half
\* a second later, 1, 29, 30 and 31 days later, and 30 days and half a
\* second later.
Instants ==
    {0, 1, 2 * DaySeconds, 2 * 29 * DaySeconds, 2 * 30 * DaySeconds,
     2 * 30 * DaySeconds + 1, 2 * 31 * DaySeconds}

\* Time passes between two calls.
Tick ==
    /\ \A r \in Threads : Inactive(r)
    /\ \E t \in Instants : t > clock /\ clock' = t
    /\ answer' = NoAnswer
    /\ UNCHANGED <<letter, ocr, site, siteVer, start_url, started, cycle, navVars, loopHist,
                   callHist, files, _visited, pc, kind, inst, queue, current_url,
                   response, fetchLog, opener, failures>>

\* files without the file p
RemoveFile(p) == [q \in DOMAIN files \ {p} |-> files[q]]

\* Between two calls the timestamp file is deleted, truncated, overwritten
\* with text that is no integer, or made unreadable (write-only).
Damage(how) ==
    /\ \A r \in Threads : Inactive(r)
    /\ Exists(last_scrape_file)
    /\ files[last_scrape_file][1] = "ts"
    /\ files' = IF how = "absent" THEN RemoveFile(last_scrape_file)
                ELSE IF how = "empty" THEN WriteFile(last_scrape_file, Empty)
                ELSE WriteFile(last_scrape_file, <<how, <<>>, 0>>)
    /\ answer' = NoAnswer
    /\ UNCHANGED <<letter, ocr, site, siteVer, start_url, started, clock, cycle, navVars, loopHist,
                   callHist, _visited, pc, kind, inst,
                   queue, current_url, response, fetchLog, opener, failures>>

\* KeyboardInterrupt in the crawl loop of scrape(), while it waits for the
\* response or writes a PDF: the call ends where it is.
Interrupt(r) ==
    /\ kind[r] = "full"
    /\ pc[r] \in {"fetch", "pdf_write"}
    /\ pc' = [pc EXCEPT ![r] = "interrupted"]
    /\ UNCHANGED <<hostVars, navVars, loopHist, callHist, files, _visited, kind, inst,
                   queue, current_url, response, fetchLog, opener, failures>>

\* KeyboardInterrupt in extract_all_pdfs: the pass has handled the PDFs
\* of done, not all of those it had to handle, and the call ends.
InterruptExtract(r) ==
    /\ kind[r] = "full"
    /\ pc[r] = "extract"
    /\ LET todo == {p \in PdfFiles : NeedsText(p)}
       IN  \E done \in SUBSET todo : \E hasText \in SUBSET done :
              /\ done # todo \/ todo = {}
              /\ files' = [q \in DOMAIN Extracted(hasText)
                                    \ {TxtPath(p) : p \in todo \ done} |->
                              Extracted(hasText)[q]]
              /\ extractLog' = [extractLog EXCEPT ![r] = done]
    /\ callLog' = [callLog EXCEPT ![r] = Append(@, "extract")]
    /\ pc' = [pc EXCEPT ![r] = "interrupted"]
    /\ UNCHANGED <<hostVars, navVars, loopHist, slept, _visited, kind, inst, queue,
                   current_url, response, fetchLog, opener, failures>>

-----------------------------------------------------------------------------
(* The text extractor: ocr_utils.py *)

\* The number of pages of a PDF that is converted to images.
MaxPages == 2

\* What a backend does with one image or page: image_to_string raises, gives
\* "" for a page without text, or gives text.
PageOutcomes == {"fails", "blank", "text"}

\* The pages of a PDF, by what image_to_string does with each.
PageSeqs == UNION {[1..n -> PageOutcomes] : n \in 0..MaxPages}

\* The file, the backends and what they do:
\*   ext          the extension of file_path as os.path.splitext gives it;
\*   pdftotext    "missing" (shutil.which gives None), "fails" (subprocess.run
\*                raises), "empty" (no output) or "text";
\*   pdf2image    "missing" (convert_from_path is None), "fails"
\*                (convert_from_path raises) or "ok" (it gives the pages);
\*   pytesseract  "missing" (None) or "ok";
\*   pillow       "missing" (Image is None), "fails" (Image.open raises) or "ok".
OcrInputs ==
    [ext : {".pdf", ".PDF", ".png", ".txt"},
     pdftotext : {"missing", "fails", "empty", "text"},
     pdf2image : {"missing", "fails", "ok"},
     pytesseract : {"missing", "ok"},
     pillow : {"missing", "fails", "ok"},
     pages : PageSeqs,
     image : PageOutcomes,
     called : {"none"}, raised : {FALSE}, text : {<<>>}]

\* A call that returns the string s, and a call that raises.
Ret(s) == [raised |-> FALSE, text |-> s]

Raise == [raised |-> TRUE, text |-> <<>>]

\* try: body / except Exception: return ""
TryElseEmpty(body) == IF body.raised THEN Ret(<<>>) ELSE body

\* sep.join(parts)
RECURSIVE Join(_, _)
Join(parts, sep) ==
    IF parts = <<>> THEN <<>>
    ELSE IF Len(parts) = 1 THEN parts[1]
    ELSE parts[1] \o sep \o Join(Tail(parts), sep)

\* _extract_text_pdftotext(pdf_path)
_extract_text_pdftotext(env) ==
    IF env.pdftotext = "missing" THEN Ret(<<>>)
    ELSE TryElseEmpty(IF env.pdftotext = "fails" THEN Raise
                      ELSE IF env.pdftotext = "text" THEN Ret(Text)
                      ELSE Ret(<<>>))

\* _extract_text_pytesseract_image(image)
_extract_text_pytesseract_image(env, image) ==
    IF env.pytesseract = "missing" THEN Ret(<<>>)
    ELSE TryElseEmpty(IF image = "fails" THEN Raise
                      ELSE IF image = "text" THEN Ret(Text)
                      ELSE Ret(<<>>))

\* extract_text_from_pdf(pdf_path)
extract_text_from_pdf(env) ==
    LET text == _extract_text_pdftotext(env)
        extracted_pages ==
            [i \in 1..Len(env.pages) |-> _extract_text_pytesseract_image(env, env.pages[i])]
    IN  IF text.raised THEN Raise
        ELSE IF text.text # <<>> THEN text
        ELSE IF env.pdf2image = "missing" \/ env.pytesseract = "missing" THEN Ret(<<>>)
        ELSE IF env.pdf2image = "fails" THEN TryElseEmpty(Raise)
        ELSE IF \E i \in DOMAIN extracted_pages : extracted_pages[i].raised THEN Raise
        ELSE Ret(Join([i \in DOMAIN extracted_pages |-> extracted_pages[i].text], <<"\n">>))

\* extract_text_from_image(image_path)
extract_text_from_image(env) ==
    IF env.pillow = "missing" \/ env.pytesseract = "missing" THEN Ret(<<>>)
    ELSE TryElseEmpty(IF env.pillow = "fails" THEN Raise
                      ELSE _extract_text_pytesseract_image(env, env.image))

\* str.lower() of an extension
Lower(ext) == IF ext = ".PDF" THEN ".pdf" ELSE ext

\* extract_text(file_path)
extract_text(env) ==
    LET ext == Lower(env.ext)
    IN  IF ext = ".pdf" THEN extract_text_from_pdf(env)
        ELSE IF ext \in {".png", ".jpg", ".jpeg", ".bmp", ".gif", ".tiff"}
        THEN extract_text_from_image(env)
        ELSE Ret(<<>>)

\* The crawl state, which a call of ocr_utils or letter_analysis leaves alone.
crawlVars ==
    <<site, siteVer, start_url, started, clock, answer, cycle, navVars, loopHist,
      callHist, files, _visited, pc, kind, inst, queue, current_url, response,
      fetchLog, opener, failures>>

\* A call of extract_text(file_path) (app.py:371,
\* improved_work_and_income_scraper.py:136).
ExtractText ==
    /\ ocr.called = "none"
    /\ ocr' = [ocr EXCEPT !.called = "extract_text",
                          !.raised = extract_text(ocr).raised,
                          !.text = extract_text(ocr).text]
    /\ UNCHANGED <<crawlVars, letter>>

\* A call of extract_text_from_pdf(pdf_path) (scraper.py:159, nav_scraper.py:162).
ExtractTextFromPdf ==
    /\ ocr.called = "none"
    /\ ocr' = [ocr EXCEPT !.called = "extract_text_from_pdf",
                          !.raised = extract_text_from_pdf(ocr).raised,
                          !.text = extract_text_from_pdf(ocr).text]
    /\ UNCHANGED <<crawlVars, letter>>

\* run_periodic_scrape(scraper, interval_days) on scraper object 1, up to
\* the top of its loop.
RunPeriodicScrape(interval_days) ==
    /\ cycle.phase = "off"
    /\ started = 0
    /\ cycle' = [cycle EXCEPT !.phase = "start", !.interval = interval_days]
    /\ UNCHANGED <<letter, ocr, site, siteVer, start_url, started, clock, answer, navVars, loopHist,
                   callHist, files, _visited, pc, kind, inst, queue, current_url,
                   response, fetchLog, opener, failures>>

\* One cycle up to the call of run_update: start = time.time(); if
\* scraper.needs_update(days=interval_days): scraper.run_update(force=True);
\* otherwise only a log line.
PeriodicCheck(r) ==
    /\ cycle.phase = "start"
    /\ cycle.n <= MaxRuns
    /\ LET stale == needs_update(StampContent, clock, cycle.interval)
           now == [cycle EXCEPT !.n = @ + 1, !.begun = clock, !.stale = stale]
       IN  IF stale
           THEN /\ RunUpdateCall(r, 1, TRUE)
                /\ cycle' = [now EXCEPT !.phase = "update"]
           ELSE /\ cycle' = [now EXCEPT !.phase = "skip"]
                /\ UNCHANGED <<letter, ocr, site, siteVer, start_url, started, clock, answer, navVars,
                               loopHist, callHist, files, _visited, pc, kind, inst, queue,
                               current_url, response, fetchLog, opener, failures>>

\* The time a crawl loop takes, in half seconds: its fetches and its
\* time.sleep(self.delay) calls add up to half a second, one second, one
\* hour or two days (or to less than the clock resolves).
CrawlTimes == {1, 2, 2 * 3600, 2 * 2 * DaySeconds}

\* Time passes while the crawl loop of a periodic update runs.
Elapse(r) ==
    /\ cycle.phase = "update"
    /\ pc[r] = "stamp"
    /\ clock = cycle.begun
    /\ \E d \in CrawlTimes : clock' = clock + d
    /\ UNCHANGED <<letter, ocr, site, siteVer, start_url, started, answer, cycle, navVars, loopHist,
                   callHist, files, _visited, pc, kind, inst, queue, current_url,
                   response, fetchLog, opener, failures>>

\* The end of a cycle: elapsed = time.time() - start and
\* time.sleep(max(0, interval_seconds - elapsed)), which returns on time or
\* half a second late.
PeriodicSleep(r) ==
    /\ \/ cycle.phase = "update" /\ pc[r] = "done"
       \/ cycle.phase = "skip"
    /\ LET interval_seconds == cycle.interval * 24 * 3600
           elapsed == clock - cycle.begun
           to_sleep == IF 2 * interval_seconds - elapsed > 0
                       THEN 2 * interval_seconds - elapsed ELSE 0
       IN  \E late \in {0, 1} : clock' = clock + to_sleep + late
    /\ cycle' = [cycle EXCEPT !.phase = "start"]
    /\ UNCHANGED <<letter, ocr, site, siteVer, start_url, started, answer, navVars, loopHist,
                   callHist, files, _visited, pc, kind, inst, queue, current_url,
                   response, fetchLog, opener, failures>>

-----------------------------------------------------------------------------
(* Specifications *)

\* One step of a crawl loop.
Crawl(r) ==
    \/ Dequeue(r)
    \/ Mark(r)
    \/ Fetch(r)
    \/ PdfExists(r)
    \/ PdfOpen(r)
    \/ PdfWrite(r)
    \/ SaveHtml(r)

\* Sequential calls, all made by thread 1: an entry point is called when the
\* call before it is over.
Next ==
    \/ \E i \in Instances : RunUpdate(1, i, TRUE)
    \/ NavScrape(1)
    \/ Crawl(1)
    \/ Stamp(1)
    \/ ExtractAllPdfs(1)
    \/ NextCat(1)
    \/ NavExtractAllPdfs(1)
    \/ NavStamp(1)
    \/ SiteChanges

Spec == Init /\ [][Next]_vars

\* The call runs on a thread of its own that is never suspended for ever:
\* a step of scrape() or of the extraction pass that can be taken is taken.
ScrapeStep(r) == Crawl(r) \/ Stamp(r) \/ ExtractAllPdfs(r)

\* The runs of Spec, scheduled fairly.
SpecLoop == Init /\ [][Next]_vars /\ WF_vars(ScrapeStep(1))

\* Concurrent calls: run_update(force=True) on the worker threads of the web
\* application (scraper object 1) or on another scraper object.
NextConc ==
    \/ \E r \in Threads, i \in Instances : RunUpdate(r, i, TRUE)
    \/ \E r \in Threads : Crawl(r)
    \/ \E r \in Threads : Stamp(r)
    \/ \E r \in Threads : ExtractAllPdfs(r)
    \/ SiteChanges

InitConc == Start(ConcSites, StartUrls, 0)

SpecConc == InitConc /\ [][NextConc]_vars

\* The update policy: sequential calls of needs_update and run_update on a
\* small site while time passes, with crawls that are interrupted and a
\* timestamp file that is damaged between calls.
NextUpdate ==
    \/ \E i \in Instances, force \in BOOLEAN : RunUpdate(1, i, force)
    \/ \E days \in Days : NeedsUpdate(1, days)
    \/ Crawl(1)
    \/ Stamp(1)
    \/ ExtractAllPdfs(1)
    \/ Interrupt(1)
    \/ InterruptExtract(1)
    \/ Tick
    \/ \E how \in {"absent", "empty", "junk", "unreadable"} : Damage(how)

\* Only fetches of URLs that the host does not serve fail; the start URL
\* https://x/ is one the host of SiteDocs does not serve.
InitUpdate ==
    \/ Start(UpdateSites, {X(pIndex, "")}, MaxFailures)
    \/ Start({SiteDocs}, {X(pRoot, "")}, MaxFailures)

SpecUpdate == InitUpdate /\ [][NextUpdate]_vars

\* Periodic mode: run_periodic_scrape on one scraper object, with an
\* interval of 1 or 30 days.
NextPeriodic ==
    \/ \E interval_days \in Days : RunPeriodicScrape(interval_days)
    \/ PeriodicCheck(1)
    \/ Crawl(1)
    \/ Elapse(1)
    \/ Stamp(1)
    \/ ExtractAllPdfs(1)
    \/ PeriodicSleep(1)

\* Every fetch of a URL that the host serves succeeds.
InitPeriodic ==
    \/ Start({SiteDocs}, {X(pIndex, "")}, MaxFailures)
    \/ Start({SiteRoot}, {X(pRoot, "")}, MaxFailures)

SpecPeriodic == InitPeriodic /\ [][NextPeriodic]_vars

\* Calls of the text extractor for every file extension and every state of
\* the backends.
NextExtract == ExtractText \/ ExtractTextFromPdf

InitExtract ==
    Constructed({SiteRoot}, {X(pRoot, "")}, 0) /\ ocr \in OcrInputs /\ letter = NoLetter

SpecExtract == InitExtract /\ [][NextExtract]_vars

-----------------------------------------------------------------------------
(* Properties *)

Range(q) == {q[i] : i \in DOMAIN q}

NoDuplicates(q) == \A i, j \in DOMAIN q : i # j => q[i] # q[j]

RECURSIVE IsSubsequence(_, _)
IsSubsequence(a, b) ==
    IF a = <<>> THEN TRUE
    ELSE IF b = <<>> THEN FALSE
    ELSE IF Head(a) = Head(b) THEN IsSubsequence(Tail(a), Tail(b))
    ELSE IsSubsequence(a, Tail(b))

\* The URLs thread r has fetched in the crawl loop it is in (or was in last).
LoopFetched(r) ==
    LET mine == SelectSeq(fetchLog[r], LAMBDA e : e.loop # NoUrl /\ e.loop = LoopStart(r))
    IN  [i \in DOMAIN mine |-> mine[i].url]

\* The URLs thread r has fetched in the crawl loop that started at target c.
FetchedIn(r, c) == {fetchLog[r][i].url : i \in {j \in DOMAIN fetchLog[r] : fetchLog[r][j].loop = c}}

C2_NoTargetEnqueuedTwice ==
    \A r \in Threads : NoDuplicates(<<LoopStart(r)>> \o enqueued[r])

\* C2 as amended: a URL that is in the visited set is never appended to the
\* queue, and a queue entry that is in the visited set when it is dequeued is
\* dropped without a fetch (a URL that only waits in the queue can be
\* appended again).
C2_VisitedNotEnqueued ==
    [][\A r \in Threads :
          /\ \A k \in (Len(enqueued[r]) + 1)..Len(enqueued'[r]) :
                enqueued'[r][k] \notin VisitedOf(r)
          /\ (pc[r] = "loop" /\ queue[r] # <<>> /\ Head(queue[r]) \in VisitedOf(r))
                => (pc'[r] = "loop" /\ fetchLog'[r] = fetchLog[r])]_vars

\* The start page of SiteMix links to itself and twice to one page: the
\* visited start page was not appended, the other page was appended twice.
C2_Witness ==
    /\ site = SiteMix
    /\ kind[1] = "full"
    /\ pc[1] = "loop"
    /\ current_url[1] = start_url
    /\ start_url \in _visited[inst[1]]
    /\ start_url \notin Range(enqueued[1])
    /\ \E i, j \in DOMAIN queue[1] : i # j /\ queue[1][i] = queue[1][j]

C4_VisitedWithoutFragment ==
    /\ \A i \in Instances : \A u \in _visited[i] : u.fragment = ""
    /\ \A r \in Threads : \A u \in visited[r] : u.fragment = ""
    /\ \A r \in Threads : \A i, j \in DOMAIN fetchLog[r] :
          (i # j /\ fetchLog[r][i].loop = fetchLog[r][j].loop)
             => StripFragment(fetchLog[r][i].url) # StripFragment(fetchLog[r][j].url)

\* C5: a full-site crawl fetches and enqueues, besides its start URL, only
\* http(s) URLs of the start URL's domain.
C5_SameDomain ==
    \A r \in Threads :
        kind[r] = "full" =>
            \A u \in (Range(LoopFetched(r)) \cup Range(enqueued[r])) \ {start_url} :
                /\ u.scheme \in {"http", "https"}
                /\ u.netloc = start_url.netloc

\* A full crawl of SiteMix is over; its start page, which links to another
\* domain and to a mailto address, was fetched and so were pages it links to.
C5_Witness ==
    /\ site = SiteMix
    /\ kind[1] = "full"
    /\ pc[1] = "stamp"
    /\ start_url \in Range(LoopFetched(1))
    /\ Len(LoopFetched(1)) >= 4

\* path lies in the directory with segments dir (or below it)
UnderDir(path, dir) == IsPrefix(dir, path) /\ Len(path) > Len(dir)

\* C6: a category crawl fetches, besides the category start URL, only URLs
\* of the category's domain whose path begins with the category's base
\* directory, which begins with the start path without its last segment;
\* from /map/cs/index.html the link to /map/cs/sub/page.html is followed and
\* the link to /map/df/page.html on the same page is not.
C6_CategoryScope ==
    \A r \in Threads : \A i \in DOMAIN fetchLog[r] :
        LET c == fetchLog[r][i].loop
            u == fetchLog[r][i].url
        IN  /\ (kind[r] = "nav" /\ c # NoUrl /\ u # c) =>
                  /\ u.netloc = c.netloc
                  /\ UnderDir(u.path, Front(BaseDir(c)))
                  /\ UnderDir(u.path, Front(c.path))
            /\ (kind[r] = "nav" /\ c.path = pB) => u.path # pE
            /\ (kind[r] = "nav" /\ c.path = pB /\ category[r] = c /\ site = SiteMix
                   /\ pc[r] = "nextcat" /\ failures = 0)
                  => X(pD, "") \in FetchedIn(r, c)

\* The crawl of category /map/cs/index.html#s1 of SiteMix is over: it has
\* fetched /map/cs/sub/page.html.
C6_Witness ==
    /\ site = SiteMix
    /\ kind[1] = "nav"
    /\ pc[1] = "nextcat"
    /\ category[1] = X(pB, "s1")
    /\ X(pD, "") \in FetchedIn(1, category[1])

\* The category links NavScraper.scrape finds on the navigation page.
Categories == IF Served(start_url) THEN NavLinks(Get(start_url).links) ELSE {}

\* C7 as claimed: the crawl of a category A follows no link to a page whose
\* path lies under the base directory of another category B.
C7_NeverUnderOtherCategory ==
    \A r \in Threads : \A i \in DOMAIN fetchLog[r] :
        LET a == fetchLog[r][i].loop
            u == fetchLog[r][i].url
        IN  (kind[r] = "nav" /\ a # NoUrl /\ u # a) =>
               \A b \in Categories \ {a} : ~StartsWith(u.path, BaseDir(b))

\* Neither base directory contains the other.
Apart(a, b) ==
    /\ ~IsPrefix(Front(BaseDir(a)), Front(BaseDir(b)))
    /\ ~IsPrefix(Front(BaseDir(b)), Front(BaseDir(a)))

\* C7 as amended: the crawl of a category A fetches no page under the base
\* directory of a category B when neither base directory contains the other.
C7_ApartCategories ==
    \A r \in Threads :
        kind[r] = "nav" =>
            LET cats == Categories
            IN  \A i \in DOMAIN fetchLog[r] :
                    LET a == fetchLog[r][i].loop
                        u == fetchLog[r][i].url
                    IN  a # NoUrl =>
                           \A b \in cats :
                               Apart(a, b) => ~UnderDir(u.path, Front(BaseDir(b)))

\* The crawl of category /map/df/index.html of SiteMix is over: its start
\* page was fetched, which links to /map/cs/index.html of another category.
C7_Witness ==
    /\ site = SiteMix
    /\ kind[1] = "nav"
    /\ pc[1] = "nextcat"
    /\ category[1] = X(pC, "")
    /\ failures = 0
    /\ X(pB, "s1") \in Categories
    /\ Apart(X(pC, ""), X(pB, "s1"))
    /\ X(pE, "") \in FetchedIn(1, category[1])

\* A thread is between open(pdf_path, "wb") and the end of its write.
BeingWritten(p) == \E r \in Threads : pc[r] = "pdf_write" /\ PdfPath(current_url[r]) = p

\* C8: with sequential runs a file under pdfs/ never changes once it is
\* written, and every PDF path is opened for writing by one call at most.
C8_PdfNeverRewritten ==
    /\ [][\A p \in DOMAIN files :
             (p[1] = "pdfs" /\ ~BeingWritten(p))
                => (p \in DOMAIN files' /\ files'[p] = files[p])]_vars
    /\ [](\A p \in DOMAIN opener : Cardinality(opener[p]) <= 1)

\* A second call has fetched a PDF whose file an earlier call wrote, with a
\* body that differs from the stored one, and has gone on without writing.
C8_Witness ==
    /\ started = 2
    /\ pc[1] = "loop"
    /\ response[1].pdf
    /\ UrlEndsWithPdf(current_url[1])
    /\ Exists(PdfPath(current_url[1]))
    /\ files[PdfPath(current_url[1])] # response[1].body
    /\ files[PdfPath(current_url[1])] # Empty
    /\ \A c \in opener[PdfPath(current_url[1])] : c[2] = 1

\* C9 as claimed: a PDF path that one run has opened for writing is never
\* opened for writing (created or truncated) by another run.
C9_CreateIfAbsent ==
    \A p \in DOMAIN opener : Cardinality(opener[p]) <= 1

\* C10 as claimed: a run that has written last_scrape.txt has fetched the
\* start target in its own crawl.
C10_OwnCrawl ==
    \A r \in Threads :
        (kind[r] = "full" /\ pc[r] \in {"extract", "done"})
            => start_url \in Range(LoopFetched(r))

\* C11 as claimed: every invocation of the full-site crawl starts with an
\* empty visited set, so it fetches at least the start target before it
\* writes last_scrape.txt.
C11_FreshVisited ==
    /\ (pc[1] = "loop" /\ kind[1] = "full" /\ fetchLog[1] = <<>>
            /\ queue[1] = <<start_url>>)
          => _visited[inst[1]] = {}
    /\ (pc[1] = "stamp" /\ kind[1] = "full") => fetchLog[1] # <<>>

\* A call of thread r ends with an exception in this step.
Aborts(r) ==
    pc[r] \notin {"raised", "interrupted", "http_error"}
        /\ pc'[r] \in {"raised", "interrupted", "http_error"}

\* C12: last_scrape.txt is written only after the crawl loop has drained its
\* queue: the step that writes it is taken with an empty queue, every other
\* step of a call leaves the file as it is, and a call whose crawl ends with
\* an exception leaves every file, the timestamp file included, as it was,
\* so needs_update returns what it returned before.
C12_StampAfterLoop ==
    [][\A r \in Threads :
          /\ (pc[r] = "stamp") => (queue[r] = <<>>)
          /\ (pc[r] # "stamp" /\ pc'[r] # pc[r]) => (StampContent' = StampContent)
          /\ (Aborts(r) /\ pc[r] # "extract") =>
                /\ files' = files
                /\ \A days \in Days :
                      needs_update(StampContent', clock', days)
                          = needs_update(StampContent, clock, days)]_vars

\* C12 happens: a second run is interrupted after its first fetch, at a
\* later time than the first run, whose timestamp and files are on disk.
C12_Witness ==
    /\ pc[1] = "interrupted"
    /\ started = 2
    /\ fetchLog[1] # <<>>
    /\ StampContent[1] = "ts"
    /\ StampContent[3] # clock \div 2
    /\ \E p \in DOMAIN files : p[1] = "html"

\* C13: when last_scrape.txt holds an integer last_run, needs_update(days)
\* returns true exactly when now - last_run > days * 86400: an age of exactly
\* days days is not stale, needs_update(30) is true at an age of 31 days and
\* false at an age of 29 days.
C13_StrictThreshold ==
    answer.content[1] = "ts" =>
        LET age2 == answer.at - 2 * answer.content[3]   \* twice now - last_run
        IN  /\ answer.stale <=> (age2 > 2 * answer.days * 86400)
            /\ (answer.days = 30 /\ age2 = 2 * 31 * 86400) => answer.stale
            /\ (answer.days = 30 /\ age2 = 2 * 29 * 86400) => ~answer.stale
            /\ (age2 = 2 * answer.days * 86400) => ~answer.stale

\* C13 happens: needs_update(30) is called when the scrape is exactly 30
\* days old.
C13_Witness ==
    /\ answer.content[1] = "ts"
    /\ answer.days = 30
    /\ answer.at - 2 * answer.content[3] = 2 * 30 * 86400
    /\ ~answer.stale

\* C14: needs_update returns true whenever the timestamp file is absent,
\* unreadable, empty or does not parse as an integer, whatever days is.
C14_NoTimestampIsStale ==
    answer.content[1] \in {"absent", "unreadable", "empty", "junk"}
        => answer.stale = TRUE

\* C14 happens: needs_update(30) is called, some time after a run, on a
\* timestamp file that holds text that is no integer.
C14_Witness ==
    /\ answer.content[1] = "junk"
    /\ answer.days = 30
    /\ answer.at > 0
    /\ started > 0
    /\ answer.stale

\* A step in which thread 1 calls run_update.
CallsRunUpdate == started' # started /\ kind'[1] = "full"

\* Whether the update is due by the default age of 30 days.
Due == needs_update(StampContent, clock, 30)

\* A text file under pdf_text/ is written in this step.
TextWritten ==
    \E p \in DOMAIN files' :
        p[1] = "pdf_text" /\ (p \in DOMAIN files => files'[p] # files[p])

\* C15: run_update(force) with force true or needs_update() true performs one
\* full crawl and then one extraction pass, in that order: the call starts
\* scrape(), its steps are scrape, the timestamp, the extraction, each once,
\* and no text file is written and no PDF is passed to the extractor before
\* the crawl loop of the call has drained its queue.
C15_CrawlThenExtract ==
    /\ [][/\ (CallsRunUpdate /\ (Head(callLog'[1]) = Called(TRUE) \/ Due))
                => (pc'[1] = "loop" /\ callLog'[1] = <<Head(callLog'[1]), "scrape">>)
          /\ (TextWritten \/ extractLog'[1] \notin {{}, extractLog[1]})
                => (pc[1] = "extract" /\ queue[1] = <<>>
                        /\ callLog[1] = <<Head(callLog[1]), "scrape", "stamp">>)]_vars
    /\ [](kind[1] = "full" =>
            /\ \E force \in BOOLEAN :
                  IsPrefix(callLog[1], <<Called(force), "scrape", "stamp", "extract">>)
            /\ (pc[1] = "done") => (Len(callLog[1]) = 4))

\* C15 happens: a second call, not forced but due, has crawled and then
\* extracted the text of a PDF.
C15_Witness ==
    /\ pc[1] = "done"
    /\ started = 2
    /\ callLog[1] = <<Called(FALSE), "scrape", "stamp", "extract">>
    /\ fetchLog[1] # <<>>
    /\ extractLog[1] # {}

\* C16: run_update(force=False) called when needs_update() is false does
\* nothing: no fetch, no extraction, no file written, last_scrape.txt and
\* the visited set as they were, and the call is over.
C16_NoOp ==
    /\ [][(CallsRunUpdate /\ Head(callLog'[1]) = Called(FALSE) /\ ~Due)
             => /\ pc'[1] = "current"
                /\ files' = files
                /\ _visited' = _visited
                /\ fetchLog'[1] = <<>>
                /\ extractLog'[1] = {}
                /\ callLog'[1] = <<Called(FALSE)>>]_vars
    /\ [][pc[1] = "current" =>
             \/ CallsRunUpdate
             \/ UNCHANGED <<pc, _visited, fetchLog, extractLog, callLog, queue>>]_vars

\* C16 happens: an unforced call finds a scrape that is exactly 30 days old
\* and does nothing.
C16_Witness ==
    /\ pc[1] = "current"
    /\ StampContent[1] = "ts"
    /\ clock - 2 * StampContent[3] = 2 * 30 * 86400
    /\ callLog[1] = <<Called(FALSE)>>

\* The PDFs under pdfs/ whose mirrored text file is missing or zero-length.
WithoutText ==
    {p \in DOMAIN files :
        /\ p[1] = "pdfs" /\ Last(p) = ".pdf"
        /\ LET t == <<"pdf_text">> \o SubSeq(p, 2, Len(p) - 1) \o <<".txt">>
           IN  t \notin DOMAIN files \/ files[t] = Empty}

\* C17: an extraction pass passes a PDF under pdfs/ to the text extractor
\* exactly when its mirrored .txt file is missing or zero-length and writes
\* the text files of those PDFs alone; a pass that finds a non-empty text
\* file for every PDF calls the extractor for none and writes nothing.
C17_ExtractsMissingOrEmpty ==
    [][\A r \in Threads :
          (pc[r] = "extract" /\ pc'[r] # "extract") =>
              /\ extractLog'[r] = WithoutText
              /\ DOMAIN files' = DOMAIN files \cup {TxtPath(p) : p \in WithoutText}
              /\ \A q \in DOMAIN files :
                    q \notin {TxtPath(p) : p \in WithoutText} => files'[q] = files[q]
              /\ (WithoutText = {}) => (files' = files)]_vars

\* C17 happens: the pass of a second call has passed one PDF, whose text
\* file has length 0, to the extractor and has left alone another PDF that
\* has text.
C17_Witness ==
    /\ started = 2
    /\ pc[1] \in {"done", "stamp_nav"}
    /\ \E p, q \in PdfFiles :
          /\ p \in extractLog[1]
          /\ files[TxtPath(p)] = Empty
          /\ q \notin extractLog[1]
          /\ files[TxtPath(q)] # Empty

\* C18 as claimed: a target whose fetch has failed is not fetched again in
\* the same run of an entry point.
C18_NeverFetchedAgainInRun ==
    \A r \in Threads : \A i, j \in DOMAIN fetchLog[r] :
        (i < j /\ ~fetchLog[r][i].ok) => fetchLog[r][j].url # fetchLog[r][i].url

\* C18 as amended: a fetch that fails is neither fatal nor retried in its
\* crawl loop: the failing step writes no file, leaves the queue as it is
\* and the target in the visited set, the loop goes on with the next
\* target, and no fetch of a crawl loop is for a URL that the same loop has
\* fetched before.
C18_FailureAbandonsTarget ==
    [][\A r \in Threads :
          pc[r] = "fetch" =>
              /\ \A i \in DOMAIN fetchLog[r] :
                    fetchLog[r][i].loop = LoopStart(r)
                        => fetchLog[r][i].url # current_url[r]
              /\ (pc'[r] \notin {"fetch", "pdf", "html"}) =>
                    /\ pc'[r] = "loop"
                    /\ files' = files
                    /\ queue'[r] = queue[r]
                    /\ current_url[r] \in
                          (IF kind[r] = "full" THEN _visited'[inst[r]] ELSE visited'[r])]_vars

\* C18 happens: after the failed fetch of a URL that the host serves, the
\* loop is about to fetch its next target.
C18_Witness ==
    /\ pc[1] = "fetch"
    /\ ~slept[1]
    /\ failures >= 1
    /\ Len(LoopFetched(1)) >= 1
    /\ current_url[1] \notin Range(LoopFetched(1))

\* C19 as claimed: in a full-site crawl time.sleep(self.delay) has run
\* between any two consecutive fetches.
C19_DelayAfterEveryFetch ==
    \A r \in Threads :
        (kind[r] = "full" /\ pc[r] = "fetch" /\ fetchLog[r] # <<>>) => slept[r]

\* C20 as claimed: no entry point ends with the exception of a failed fetch.
C20_FetchFailureNeverRaises ==
    \A r \in Threads : pc[r] # "http_error"

\* The URLs the scope rule of the full-site crawl accepts: http(s) URLs of
\* the start URL's domain.
InDomain(u) == u.scheme \in {"http", "https"} /\ u.netloc = start_url.netloc

\* The in-domain URLs, without fragment, that the links of the page at u lead
\* to; a PDF and a URL the host does not serve have none.
LinkedFrom(u) ==
    IF Served(u) /\ ~Get(u).pdf
    THEN {v \in {StripFragment(urljoin(u, site[u.path].links[i])) :
                    i \in DOMAIN site[u.path].links} : InDomain(v)}
    ELSE {}

RECURSIVE Closure(_)
Closure(S) ==
    LET T == S \cup UNION {LinkedFrom(u) : u \in S}
    IN  IF T = S THEN S ELSE Closure(T)

\* The URLs reachable from the start URL through links on HTML pages.
Reachable == Closure({start_url})

\* Thread 1 is in a call of run_update on a scraper object that no call has
\* used before: the visited set of the object holds what this call has put
\* there and nothing else (a call marks the start URL before anything else,
\* so an object that was used holds it before the next call fetches).
OnNewInstance ==
    /\ kind[1] = "full"
    /\ fetchLog[1] # <<>>
    /\ fetchLog[1][1].url = start_url
    /\ _visited[inst[1]] \subseteq
          {fetchLog[1][i].url : i \in DOMAIN fetchLog[1]} \cup {current_url[1]}

\* scrape() of thread 1 is about to return or has just returned, and every
\* fetch of it has succeeded.
CrawlReturned ==
    /\ pc[1] \in {"stamp", "extract"}
    /\ \A i \in DOMAIN fetchLog[1] : fetchLog[1][i].ok

\* The URLs of the call of thread 1 that were fetched as PDFs with file path p,
\* by their position in the fetch order.
PdfFetches(p) ==
    {i \in DOMAIN fetchLog[1] :
        Get(fetchLog[1][i].url).pdf /\ PdfPath(fetchLog[1][i].url) = p}

\* The HTML pages of the call of thread 1 that were saved at file path p.
HtmlFetches(p) ==
    {i \in DOMAIN fetchLog[1] :
        ~Get(fetchLog[1][i].url).pdf /\ HtmlPath(fetchLog[1][i].url) = p}

Max(S) == CHOOSE m \in S : \A n \in S : n <= m

Min(S) == CHOOSE m \in S : \A n \in S : m <= n

\* Every reachable URL was fetched once and no other URL was fetched.
FetchedReachableOnce ==
    /\ {fetchLog[1][i].url : i \in DOMAIN fetchLog[1]} = Reachable
    /\ \A i, j \in DOMAIN fetchLog[1] : i # j => fetchLog[1][i].url # fetchLog[1][j].url

\* Every HTML page is stored at its mapped path (the root page at
\* html/index.html): the file holds the body of the page saved there last.
HtmlStored ==
    /\ \A i \in DOMAIN fetchLog[1] :
          LET u == fetchLog[1][i].url
          IN  ~Get(u).pdf =>
                 /\ Exists(HtmlPath(u))
                 /\ files[HtmlPath(u)] = Body(fetchLog[1][Max(HtmlFetches(HtmlPath(u)))].url.path)
    /\ (start_url.path = pRoot) =>
          (Exists(<<"html", "index.html">>) /\ files[<<"html", "index.html">>] = Body(pRoot))

\* C21 as claimed: when a full-site scrape() on a new instance returns and
\* every fetch has succeeded, every reachable in-domain URL was fetched exactly
\* once, no other URL was fetched, every HTML page is stored at its mapped path
\* and the bytes of every PDF fetched are stored under pdfs/ by basename.
C21_ArchiveComplete ==
    (OnNewInstance /\ CrawlReturned) =>
        /\ FetchedReachableOnce
        /\ HtmlStored
        /\ \A i \in DOMAIN fetchLog[1] :
              LET u == fetchLog[1][i].url
              IN  Get(u).pdf =>
                     (Exists(PdfPath(u)) /\ files[PdfPath(u)] = Body(u.path))

\* C21 as amended: the file of a PDF holds the bytes of the first PDF of
\* that file name fetched in the run when the run created the file, and the
\* bytes an earlier run stored there otherwise.
C21_ArchiveFirstPdfWins ==
    (OnNewInstance /\ CrawlReturned) =>
        /\ FetchedReachableOnce
        /\ HtmlStored
        /\ \A i \in DOMAIN fetchLog[1] :
              LET u == fetchLog[1][i].url
                  p == PdfPath(u)
              IN  Get(u).pdf =>
                     /\ Exists(p)
                     /\ IF <<1, started>> \in opener[p]
                        THEN files[p] = Body(fetchLog[1][Min(PdfFetches(p))].url.path)
                        ELSE /\ files[p][1] = "body"
                             /\ files[p][3] <= siteVer
                             /\ \A c \in opener[p] : c[2] < started

\* C21 happens: the crawl of the end-to-end example from https://x/ on a new
\* instance has returned with html/index.html and pdfs/f.pdf on disk.
C21_Witness ==
    /\ site = SiteRoot
    /\ OnNewInstance
    /\ CrawlReturned
    /\ pc[1] = "extract"
    /\ Len(fetchLog[1]) = 3
    /\ files[<<"html", "index.html">>] = Body(pRoot)
    /\ files[<<"pdfs", "f", ".pdf">>] = Body(<<"f.pdf">>)

\* The file paths of the archive: under html/, pdfs/ and pdf_text/.
Archived == {p \in DOMAIN files : p[1] \in {"html", "pdfs", "pdf_text"}}

\* C22: across crawl runs, extraction passes and run_update calls the set of
\* file paths under html/, pdfs/ and pdf_text/ never shrinks: no step deletes
\* an archived document or an extracted text file.
C22_ArchiveNeverShrinks ==
    [][Archived \subseteq Archived']_vars

\* C22 happens: a second call has ended its extraction pass, which found a
\* zero-length text file of the first, with files in all three directories.
C22_Witness ==
    /\ started = 2
    /\ pc[1] = "done"
    /\ extractLog[1] # {}
    /\ \E p \in extractLog[1] : files[TxtPath(p)] = Empty
    /\ \A d \in {"html", "pdfs", "pdf_text"} : \E p \in Archived : p[1] = d

\* C23 as claimed: in periodic mode every cycle that follows a completed
\* update finds the data stale and performs a crawl that fetches the start
\* target, so no cycle passes without a crawl.
C23_CrawlEveryCycle ==
    (cycle.n >= 2 /\ cycle.phase \in {"update", "skip"} /\ Exists(last_scrape_file)) =>
        /\ cycle.stale
        /\ cycle.phase = "update"
        /\ (pc[1] = "done") => (start_url \in Range(LoopFetched(1)))

\* A backend has produced text for the call that was made: pdftotext, or
\* the OCR of a page or of the image.
BackendGaveText ==
    LET pdf == \/ ocr.pdftotext = "text"
               \/ /\ ocr.pdf2image = "ok" /\ ocr.pytesseract = "ok"
                  /\ \E i \in DOMAIN ocr.pages : ocr.pages[i] = "text"
        img == ocr.pillow = "ok" /\ ocr.pytesseract = "ok" /\ ocr.image = "text"
    IN  IF ocr.called = "extract_text_from_pdf" \/ ocr.ext \in {".pdf", ".PDF"} THEN pdf
        ELSE IF ocr.ext = ".png" THEN img
        ELSE FALSE

\* C24 as claimed: extract_text and extract_text_from_pdf never raise and
\* return a string, which is empty when no backend has produced text.
C24_NeverRaisesEmptyOnFailure ==
    ocr.called # "none" =>
        /\ ~ocr.raised
        /\ ~BackendGaveText => ocr.text = <<>>

\* Every fetch of the call of thread r has failed, the fetch of the start
\* target included.
AllFetchesFailed(r) ==
    /\ fetchLog[r] # <<>>
    /\ fetchLog[r][1].url = start_url
    /\ \A i \in DOMAIN fetchLog[r] : ~fetchLog[r][i].ok

\* C25: whenever the crawl loop of scrape() completes, the current time is
\* written to last_scrape.txt, whatever the fetches gave: the loop that finds
\* its queue empty goes on to the write, the write stores int(time.time()),
\* and after it needs_update(30) returns false, also when every fetch of the
\* run failed.
C25_StampWhateverOutcome ==
    /\ [][\A r \in Threads :
             /\ (kind[r] = "full" /\ pc[r] = "loop" /\ queue[r] = <<>>)
                   => (pc'[r] = "stamp" /\ files' = files)
             /\ (kind[r] = "full" /\ pc[r] = "stamp" /\ pc'[r] # "stamp")
                   => /\ pc'[r] = "extract"
                      /\ StampContent' = <<"ts", <<>>, clock \div 2>>
                      /\ ~needs_update(StampContent', clock', 30)]_vars
    /\ [](\A r \in Threads :
             (kind[r] = "full" /\ pc[r] = "extract") =>
                 ~needs_update(StampContent, clock, 30))

\* C25 happens: 31 days after a first run, a second run whose only fetch, of
\* the start target, failed has written the time to last_scrape.txt.
C25_Witness ==
    /\ started = 2
    /\ pc[1] = "extract"
    /\ AllFetchesFailed(1)
    /\ clock = 2 * 31 * DaySeconds
    /\ StampContent = <<"ts", <<>>, 31 * DaySeconds>>

\* C26 as claimed: after a successful HTML fetch the file at the mapped path
\* of the target holds the body of that fetch, whether or not a file was
\* there before.
C26_HtmlAlwaysOverwritten ==
    [][\A r \in Threads :
          (pc[r] = "html" /\ pc'[r] # "html") =>
              /\ HtmlPath(current_url[r]) \in DOMAIN files'
              /\ files'[HtmlPath(current_url[r])] = response[r].body]_vars

\* The host answers u with a PDF: the Content-Type is application/pdf or
\* the URL ends in ".pdf".
IsPdfResponse(u) ==
    Served(u) /\ (site[u.path].ctype = "application/pdf" \/ UrlEndsWithPdf(u))

\* C27: a response classified as PDF leaves the frontier and the html/ area
\* as they are: from the fetch to the next test of the queue the thread
\* appends nothing to its queue, adds nothing to the visited set and writes no
\* file but the PDF at its path under pdfs/.
C27_PdfLeavesFrontier ==
    [][\A r \in Threads :
          (/\ pc[r] \in {"pdf", "pdf_open", "pdf_write", "html"}
           /\ IsPdfResponse(current_url[r])
           /\ pc'[r] # pc[r]) =>
              /\ pc'[r] \in {"pdf_open", "pdf_write", "loop"}
              /\ queue'[r] = queue[r]
              /\ enqueued'[r] = enqueued[r]
              /\ _visited' = _visited /\ visited' = visited
              /\ \A p \in DOMAIN files' :
                    p # PdfPath(current_url[r]) => (p \in DOMAIN files /\ files'[p] = files[p])
              /\ \A p \in DOMAIN files : p \in DOMAIN files']_vars

\* C27 happens: a category crawl has written a PDF and is back at the test
\* of its queue, which holds what it held when the PDF was fetched.
C27_Witness ==
    /\ kind[1] = "nav"
    /\ pc[1] = "loop"
    /\ IsPdfResponse(current_url[1])
    /\ response[1].pdf
    /\ slept[1]
    /\ files[PdfPath(current_url[1])] = response[1].body
    /\ queue[1] # <<>>

\* The URLs, without fragment, that the links of the page at u lead to and
\* that are in scope of the category that starts at c.
LinkedInCategory(c, u) ==
    IF Served(u) /\ ~Get(u).pdf
    THEN {v \in {StripFragment(urljoin(u, site[u.path].links[i])) :
                    i \in DOMAIN site[u.path].links} :
             /\ v.scheme \in {"http", "https"}
             /\ v.netloc = c.netloc
             /\ StartsWith(v.path, BaseDir(c))}
    ELSE {}

RECURSIVE CategoryClosure(_, _)
CategoryClosure(c, S) ==
    LET T == S \cup UNION {LinkedInCategory(c, u) : u \in S}
    IN  IF T = S THEN S ELSE CategoryClosure(c, T)

\* The URLs in scope of the category that starts at c and reachable from c.
ReachableInCategory(c) == CategoryClosure(c, {c})

\* The categories whose crawl thread r has ended in its call.
CrawledCategories(r) ==
    {fetchLog[r][i].loop : i \in DOMAIN fetchLog[r]}
        \ ({NoUrl} \cup (IF pc[r] \in {"nextcat", "extract", "stamp_nav", "done"}
                          THEN {} ELSE {category[r]}))

\* C28: each category crawl of NavScraper starts with a queue that holds the
\* category URL alone and with an empty visited set, whatever the crawls
\* before it have visited: when no fetch fails, the crawl of a category
\* fetches every URL in its scope that is reachable from its start, once, so a
\* URL in scope of two categories and reachable in both is fetched once in
\* each of the two crawls.
C28_OwnVisitedPerCategory ==
    /\ [][\A r \in Threads :
             (pc[r] = "nextcat" /\ pc'[r] = "loop") =>
                 (visited'[r] = {} /\ queue'[r] = <<category'[r]>>)]_vars
    /\ [](\A r \in Threads :
             (kind[r] = "nav" /\ \A i \in DOMAIN fetchLog[r] : fetchLog[r][i].ok) =>
                 \A c \in CrawledCategories(r) :
                     /\ FetchedIn(r, c) = ReachableInCategory(c)
                     /\ \A i, j \in DOMAIN fetchLog[r] :
                           (i # j /\ fetchLog[r][i].loop = c /\ fetchLog[r][j].loop = c)
                              => fetchLog[r][i].url # fetchLog[r][j].url)

\* C28 happens: in one run the crawls of the categories /map/cs/index.html#s1
\* and /map/cs/index.html#s2 have both fetched /map/cs/sub/page.html.
C28_Witness ==
    /\ site = SiteMix
    /\ kind[1] = "nav"
    /\ \A i \in DOMAIN fetchLog[1] : fetchLog[1][i].ok
    /\ {X(pB, "s1"), X(pB, "s2")} \subseteq CrawledCategories(1)
    /\ X(pD, "") \in FetchedIn(1, X(pB, "s1"))
    /\ X(pD, "") \in FetchedIn(1, X(pB, "s2"))

\* The steps of a call of NavScraper.scrape, in the order the claim gives:
\* n category crawls, then the extraction, then the timestamp.
NavSteps(n, tail) ==
    <<"NavScraper.scrape()">> \o [i \in 1..n |-> "crawl_category"] \o tail

\* C29: NavScraper.scrape runs its phases in sequence: the first fetch is
\* that of the navigation page, the categories are crawled one after another
\* in ascending order of their URLs, a crawl begins only when the queue of
\* the crawl before it is empty, the extraction pass runs once, after the
\* last category, and last_nav_scrape.txt is written only after it.
C29_NavPhasesInSequence ==
    /\ [](\A r \in Threads : kind[r] = "nav" =>
            /\ fetchLog[r] # <<>> /\ fetchLog[r][1] \in
                  {[loop |-> NoUrl, url |-> start_url, ok |-> b] : b \in BOOLEAN}
            /\ \A i, j \in DOMAIN fetchLog[r] :
                  (1 < i /\ i < j) =>
                      /\ fetchLog[r][i].loop # NoUrl
                      /\ \/ fetchLog[r][i].loop = fetchLog[r][j].loop
                         \/ UrlLess(fetchLog[r][i].loop, fetchLog[r][j].loop)
            /\ \E n \in 0..Cardinality(Categories) :
                  \/ /\ callLog[r] = NavSteps(n, <<>>)
                     /\ pc[r] \notin {"stamp_nav", "done"}
                  \/ /\ callLog[r] = NavSteps(n, <<"extract">>)
                     /\ n = Cardinality(Categories) /\ pc[r] = "stamp_nav"
                  \/ /\ callLog[r] = NavSteps(n, <<"extract", "stamp">>)
                     /\ n = Cardinality(Categories) /\ pc[r] = "done")
    /\ [][\A r \in Threads : kind[r] = "nav" =>
             /\ (pc'[r] = "nextcat" /\ pc[r] # "nextcat" /\ callLog[r] # <<>>
                    /\ started' = started)
                   => (pc[r] = "loop" /\ queue[r] = <<>>)
             /\ (pc'[r] = pc[r] \/ pc[r] # "extract") =>
                   \A p \in DOMAIN files' :
                       p[1] = "pdf_text" => (p \in DOMAIN files /\ files'[p] = files[p])
             /\ (<<"last_nav_scrape.txt">> \in DOMAIN files'
                    /\ (<<"last_nav_scrape.txt">> \in DOMAIN files =>
                           files'[<<"last_nav_scrape.txt">>] # files[<<"last_nav_scrape.txt">>]))
                   => (pc[r] = "stamp_nav" /\ Last(callLog[r]) = "extract")]_vars

\* C29 happens: a run over the four categories of SiteMix has ended with the
\* extraction of a PDF and the timestamp.
C29_Witness ==
    /\ site = SiteMix
    /\ kind[1] = "nav"
    /\ pc[1] = "done"
    /\ callLog[1] = NavSteps(4, <<"extract", "stamp">>)
    /\ extractLog[1] # {}
    /\ <<"last_nav_scrape.txt">> \in DOMAIN files
    /\ Cardinality({fetchLog[1][i].loop : i \in DOMAIN fetchLog[1]}) = 5

\* What last_nav_scrape.txt holds.
NavStampContent ==
    IF <<"last_nav_scrape.txt">> \in DOMAIN files
    THEN files[<<"last_nav_scrape.txt">>] ELSE <<"absent", <<>>, 0>>

\* C30: the two runs keep separate timestamps: no step of a call of
\* NavScraper.scrape changes last_scrape.txt, so that needs_update() of
\* WorkAndIncomeScraper (which the home page of the web application shows)
\* returns after the step what it returned before, and no step of a
\* full-site run changes last_nav_scrape.txt.
C30_SeparateTimestamps ==
    [][\A r \in Threads :
          pc'[r] # pc[r] =>
              /\ kind'[r] = "nav" =>
                    /\ StampContent' = StampContent
                    /\ \A days \in Days :
                          needs_update(StampContent', clock', days)
                              = needs_update(StampContent, clock, days)
              /\ kind'[r] = "full" => NavStampContent' = NavStampContent]_vars

\* C30 happens: a category run has ended and written last_nav_scrape.txt
\* after a full-site run that wrote last_scrape.txt.
C30_Witness ==
    /\ started = 2
    /\ kind[1] = "nav"
    /\ pc[1] = "done"
    /\ NavStampContent[1] = "ts"
    /\ StampContent[1] = "ts"
    /\ ~needs_update(StampContent, clock, 30)

-----------------------------------------------------------------------------
(* C31: termination of the crawl loop *)

\* The full-site crawl loop of thread 1 is running.
InCrawlLoop ==
    /\ kind[1] = "full"
    /\ pc[1] \in {"loop", "mark", "fetch", "pdf", "pdf_open", "pdf_write", "html"}

\* C31: every full-site crawl, on every fixture site (with cycles,
\* self-links and repeated links) and whether its fetches succeed or fail,
\* eventually leaves the loop with an empty frontier; scrape() then writes
\* its timestamp and returns, and run_update ends after the extraction pass.
C31_CrawlTerminates ==
    /\ InCrawlLoop ~> (kind[1] = "full" /\ pc[1] = "stamp" /\ queue[1] = <<>>)
    /\ (kind[1] = "full" /\ pc[1] = "stamp") ~> (kind[1] = "full" /\ pc[1] = "done")

\* C31 happens: run_update has returned from a crawl of the site with cycles
\* and self-links, in which a URL was put on the frontier more than once
\* and the start page, which links to itself, was fetched.
C31_Witness ==
    /\ site = SiteMix
    /\ kind[1] = "full"
    /\ pc[1] = "done"
    /\ ~NoDuplicates(enqueued[1])
    /\ \E i \in DOMAIN fetchLog[1] : fetchLog[1][i].url = start_url /\ fetchLog[1][i].ok
    /\ Rel(pIndex, "") \in Range(site[pIndex].links)

-----------------------------------------------------------------------------
(* C32: storing one page and storing another *)

\* C32 as claimed: no full-site run ends with a fatal error, and every
\* HTML page a run has fetched and handled is a file at its mapped path,
\* also when the path of one fetched URL is a directory prefix of another's.
C32_StoringNeverBlocks ==
    kind[1] = "full" =>
        /\ pc[1] # "raised"
        /\ \A i \in DOMAIN fetchLog[1] :
              LET u == fetchLog[1][i].url
              IN  (/\ fetchLog[1][i].ok
                   /\ ~Get(u).pdf
                   /\ ~(i = Len(fetchLog[1]) /\ pc[1] = "html"))
                      => Exists(HtmlPath(u))

-----------------------------------------------------------------------------
(* C33: PDFs of one basename *)

\* The fetches of the current call that were answered with a PDF.
OkPdfFetches ==
    {i \in DOMAIN fetchLog[1] : fetchLog[1][i].ok /\ Get(fetchLog[1][i].url).pdf}

\* Two distinct PDF URLs whose paths end in the same sanitized basename.
SameName(u, v) ==
    /\ u # v
    /\ Sanitize(Basename(u.path)) = Sanitize(Basename(v.path))

\* Fetch i is the first of the call that was answered with a PDF of its basename.
FirstOfName(i) ==
    \A k \in OkPdfFetches :
        Sanitize(Basename(fetchLog[1][k].url.path))
            = Sanitize(Basename(fetchLog[1][i].url.path)) => i <= k

\* The files that hold the bytes of the PDF at URL path a or at b.
Holders(a, b) ==
    {q \in DOMAIN files : files[q][1] = "body" /\ files[q][2] \in {a, b}}

\* C33: a stored PDF is never replaced, by a later PDF of the same run or
\* by a later run; and when the crawl of a call has ended in which two
\* distinct PDF URLs of one basename were fetched, exactly one file holds
\* the bytes of either, it is a file of pdfs/, and when this call created
\* it, it holds the bytes of the first of the two fetched.
C33_FirstOfBasenameKept ==
    /\ [][\A p \in DOMAIN files :
             (p[1] = "pdfs" /\ files[p][1] = "body") =>
                 (p \in DOMAIN files' /\ files'[p] = files[p])]_vars
    /\ [](pc[1] \in {"stamp", "stamp_nav", "extract", "done"} =>
            \A i, j \in OkPdfFetches :
                LET u == fetchLog[1][i].url
                    v == fetchLog[1][j].url
                IN  (i < j /\ SameName(u, v)) =>
                       /\ Cardinality(Holders(u.path, v.path)) = 1
                       /\ \A q \in Holders(u.path, v.path) :
                             /\ q[1] = "pdfs"
                             /\ (<<1, started>> \in opener[q] /\ FirstOfName(i))
                                    => files[q][2] = u.path)

\* C33 happens: a full-site run has ended in which /map/cs/f.pdf and then
\* /map/df/f.pdf were fetched; pdfs/f.pdf holds the bytes of the first.
C33_Witness ==
    /\ site = SitePdfs
    /\ kind[1] = "full"
    /\ pc[1] = "done"
    /\ \E i, j \in OkPdfFetches :
          /\ i < j
          /\ fetchLog[1][i].url = X(pPdf1, "")
          /\ fetchLog[1][j].url = X(pPdf2, "")
    /\ Exists(<<"pdfs", "f", ".pdf">>)
    /\ files[<<"pdfs", "f", ".pdf">>][2] = pPdf1
    /\ <<1, started>> \in opener[<<"pdfs", "f", ".pdf">>]

-----------------------------------------------------------------------------
(* C34: the timestamp and the extraction pass *)

\* The step interrupts the extraction pass of run_update.
ExtractionInterrupted == pc[1] = "extract" /\ pc'[1] = "interrupted"

\* The call that ended was interrupted in its extraction pass.
InterruptedInExtraction ==
    /\ pc[1] = "interrupted"
    /\ callLog[1] # <<>>
    /\ Last(callLog[1]) = "extract"

\* C34: when the extraction pass of a run_update starts, scrape() of the
\* same call has written last_scrape.txt with the current time; an
\* interruption of the pass leaves the file as it is and leaves PDFs
\* without their text; and a run_update(force=False) that follows while
\* the timestamp is not older than 30 days changes no file, so that these
\* PDFs stay without text.
C34_StampBeforeExtraction ==
    /\ []((kind[1] = "full" /\ pc[1] = "extract") =>
             /\ Last(callLog[1]) = "stamp"
             /\ StampContent = Timestamp)
    /\ [][ExtractionInterrupted =>
             /\ StampContent' = StampContent
             /\ ~needs_update(StampContent', clock', 30)
             /\ WithoutText' # {} \/ WithoutText = {}]_vars
    /\ [][(/\ InterruptedInExtraction
           /\ CallsRunUpdate
           /\ callLog'[1][1] = Called(FALSE)
           /\ ~needs_update(StampContent, clock, 30)) =>
             /\ pc'[1] = "current"
             /\ files' = files
             /\ WithoutText' = WithoutText]_vars

\* C34 happens: a run_update(force=False) has returned without an update
\* while the timestamp is fresh and a stored PDF has no text file, which
\* only an interrupted extraction pass leaves behind.
C34_Witness ==
    /\ pc[1] = "current"
    /\ callLog[1] = <<Called(FALSE)>>
    /\ StampContent[1] = "ts"
    /\ ~needs_update(StampContent, clock, 30)
    /\ \E p \in PdfFiles : ~Exists(TxtPath(p))

-----------------------------------------------------------------------------
(* Letter analysis: letter_analysis.py *)

\* A string of letter_analysis is a sequence of pieces: a word, a word
\* followed by a space ("not "), a space or "\n".  One string is part of
\* another when its pieces are consecutive pieces of the other.
MaxWords == 2
MaxChars == 4
MaxLines == 2

KEYWORD_CLASSES ==
    << [label |-> "Sanction or reduction notice",
        keywords |-> << <<"sanction">>, <<"reduced">>, <<"suspend">>,
                        <<"suspension">>, <<"penalty">> >>],
       [label |-> "Approval or eligibility notice",
        keywords |-> << <<"approval">>, <<"approved">>, <<"granted">>,
                        <<"eligible">>, <<"entitled">> >>],
       [label |-> "Rejection notice",
        keywords |-> << <<"rejection">>, <<"rejected">>, <<"declined">>,
                        <<"not ", "eligible">>, <<"denied">> >>] >>

\* keywords of find_key_lines when the argument is None
DefaultKeywords ==
    << <<"payment">>, <<"benefit">>, <<"date">>, <<"amount">>, <<"deadline">>,
       <<"evidence">> >>

\* str.lower() of one piece
LowerPiece(c) ==
    CASE c = "Denied" -> "denied"
      [] c = "Eligible" -> "eligible"
      [] c = "Not " -> "not "
      [] c = "Payment" -> "payment"
      [] c = "DATE" -> "date"
      [] c = "X" -> "x"
      [] OTHER -> c

\* str.lower()
LowerText(s) == [i \in DOMAIN s |-> LowerPiece(s[i])]

\* kw in s
In(kw, s) == \E i \in 1..(Len(s) - Len(kw) + 1) : SubSeq(s, i, i + Len(kw) - 1) = kw

\* The classes one of whose keywords is in the lower-cased text.
Matching(lower) ==
    {c \in DOMAIN KEYWORD_CLASSES :
        \E k \in DOMAIN KEYWORD_CLASSES[c].keywords :
            In(KEYWORD_CLASSES[c].keywords[k], lower)}

\* The loop over the classes returns at the first class that has a
\* keyword in the text.
classify_letter(text) ==
    LET lower == LowerText(text)
    IN  IF Matching(lower) = {} THEN "General correspondence"
        ELSE KEYWORD_CLASSES[CHOOSE c \in Matching(lower) :
                                \A d \in Matching(lower) : c <= d].label

\* str.splitlines(): the lines between the "\n", none after a final "\n".
RECURSIVE SplitFrom(_, _)
SplitFrom(s, line) ==
    IF s = <<>> THEN (IF line = <<>> THEN <<>> ELSE <<line>>)
    ELSE IF Head(s) = "\n" THEN <<line>> \o SplitFrom(Tail(s), <<>>)
    ELSE SplitFrom(Tail(s), Append(line, Head(s)))

splitlines(s) == SplitFrom(s, <<>>)

\* str.strip(): without the white space at both ends.
RECURSIVE lstrip(_)
lstrip(s) == IF s # <<>> /\ Head(s) = " " THEN lstrip(Tail(s)) ELSE s

RECURSIVE rstrip(_)
rstrip(s) ==
    IF s # <<>> /\ s[Len(s)] = " " THEN rstrip(SubSeq(s, 1, Len(s) - 1)) ELSE s

strip(s) == rstrip(lstrip(s))

\* any(kw in lower_line for kw in lower_keywords)
AnyKeyword(lower_keywords, lower_line) ==
    \E k \in DOMAIN lower_keywords : In(lower_keywords[k], lower_line)

\* The test that ends the loop over the lines, made after a line is handled.
Enough(lines, max_lines) == Len(lines) >= max_lines

\* The loop over the lines, from the lines left and the lines collected.
RECURSIVE KeyLinesFrom(_, _, _, _)
KeyLinesFrom(rest, lines, lower_keywords, max_lines) ==
    IF rest = <<>> THEN lines
    ELSE LET line == Head(rest)
             stripped == strip(line)
             found == IF /\ AnyKeyword(lower_keywords, LowerText(line))
                         /\ stripped # <<>>
                         /\ \A i \in DOMAIN lines : lines[i] # stripped
                      THEN Append(lines, stripped) ELSE lines
         IN  IF Enough(found, max_lines) THEN found
             ELSE KeyLinesFrom(Tail(rest), found, lower_keywords, max_lines)

find_key_lines(text, keywords, max_lines) ==
    LET kws == IF keywords.given THEN keywords.list ELSE DefaultKeywords
        lower_keywords == [k \in DOMAIN kws |-> LowerText(kws[k])]
    IN  KeyLinesFrom(splitlines(text), <<>>, lower_keywords, max_lines)

\* The strings of at most n pieces of A.
RECURSIVE Strings(_, _)
Strings(A, n) ==
    IF n = 0 THEN {<<>>}
    ELSE Strings(A, n - 1) \cup {Append(s, a) : s \in Strings(A, n - 1), a \in A}

\* The pieces of the letters that are classified: the keywords of the
\* table, keywords in capitals and a word that is no keyword.
ClassPieces ==
    {"sanction", "reduced", "suspend", "suspension", "penalty", "approval",
     "approved", "granted", "eligible", "entitled", "rejection", "rejected",
     "declined", "not ", "denied", "Denied", "Eligible", "Not ", "hello "}

\* The pieces of the letters whose key lines are looked for.
LinePieces == {"date", "Payment", "x", " ", "\n"}

\* analyse_letter(text) on a letter of a few words, and find_key_lines on
\* a letter of a few lines with the default keywords or with ["X"].
LetterInputs ==
    {[NoLetter EXCEPT !.text = t] : t \in Strings(ClassPieces, MaxWords)}
    \cup
    {[NoLetter EXCEPT !.text = t, !.keywords = kw, !.max_lines = n] :
        t \in Strings(LinePieces, MaxChars),
        kw \in {[given |-> FALSE, list |-> <<>>], [given |-> TRUE, list |-> << <<"X">> >>]},
        n \in 0..MaxLines}

ClassifyLetter ==
    /\ letter.called = "none"
    /\ letter' = [letter EXCEPT !.called = "classify_letter",
                                !.label = classify_letter(letter.text)]
    /\ UNCHANGED <<crawlVars, ocr>>

FindKeyLines ==
    /\ letter.called = "none"
    /\ letter' = [letter EXCEPT !.called = "find_key_lines",
                                !.key_lines = find_key_lines(letter.text, letter.keywords,
                                                             letter.max_lines)]
    /\ UNCHANGED <<crawlVars, ocr>>

NextLetter == ClassifyLetter \/ FindKeyLines

InitLetter ==
    Constructed({SiteRoot}, {X(pRoot, "")}, 0) /\ ocr = NoOcr /\ letter \in LetterInputs

SpecLetter == InitLetter /\ [][NextLetter]_vars

-----------------------------------------------------------------------------
(* C35: the label of classify_letter *)

\* The keywords of the table, with the class of each.
TableKeywords ==
    {<<c, KEYWORD_CLASSES[c].keywords[k]>> :
        c \in DOMAIN KEYWORD_CLASSES, k \in 1..5}

\* C35 as claimed: a letter that consists of one keyword of the table is
\* given the label of the class of that keyword, 'not eligible' the label
\* 'Rejection notice', and a letter in which no keyword of the table occurs
\* is given 'General correspondence'.
C35_OwnClassLabel ==
    letter.called = "classify_letter" =>
        /\ \A ck \in TableKeywords :
              letter.text = ck[2] => letter.label = KEYWORD_CLASSES[ck[1]].label
        /\ (\A ck \in TableKeywords : ~In(ck[2], LowerText(letter.text)))
              => letter.label = "General correspondence"

-----------------------------------------------------------------------------
(* C36: the lines of find_key_lines *)

\* The keywords the call looks for, in lower case.
LowerKeywords ==
    LET kws == IF letter.keywords.given THEN letter.keywords.list ELSE DefaultKeywords
    IN  [k \in DOMAIN kws |-> LowerText(kws[k])]

\* The stripped lines of the letter, in their order.
StrippedLines == [i \in DOMAIN splitlines(letter.text) |-> strip(splitlines(letter.text)[i])]

\* The first place of a stripped line in the letter.
FirstAt(l) == Min({i \in DOMAIN StrippedLines : StrippedLines[i] = l})

\* C36 as claimed: find_key_lines returns at most max_lines lines, also
\* for max_lines = 0; each is a stripped line of the letter that is not
\* empty and contains a keyword; no line is returned twice; and the lines
\* come in the order of their first places in the letter.
C36_AtMostMaxLines ==
    letter.called = "find_key_lines" =>
        /\ Len(letter.key_lines) <= letter.max_lines
        /\ \A i \in DOMAIN letter.key_lines :
              /\ letter.key_lines[i] \in Range(StrippedLines)
              /\ letter.key_lines[i] # <<>>
              /\ AnyKeyword(LowerKeywords, LowerText(letter.key_lines[i]))
        /\ NoDuplicates(letter.key_lines)
        /\ \A i, j \in DOMAIN letter.key_lines :
              i < j => FirstAt(letter.key_lines[i]) < FirstAt(letter.key_lines[j])

====
